---- MODULE Spec2Model ----
(***************************************************************************)
(* Model of the server-side verification service of geo-verify             *)
(* (src/lib/db-supabase.ts, "Server-Side Verification Service", and the    *)
(* geohash utilities): the replay / rate-limit guard, the fraud detection  *)
(* engine, the business-hours check, the redemption token and the          *)
(* orchestrating verifyRedemption, plus the POST /api/verify handler that  *)
(* calls it.                                                               *)
(*                                                                         *)
(* Units.  Timestamps are epoch milliseconds, as in the code.  Latitudes   *)
(* and longitudes are integers in units of 1e-5 degree.  Distances are     *)
(* integers in millimetres, so that the code's comparisons of floating     *)
(* point metres and metres per second become exact integer comparisons:    *)
(*     speed > v    <=>  distance_mm > v * timeDelta_ms                    *)
(*     dist <= r    <=>  distance_mm <= r * 1000                           *)
(* An optional value is a sequence: <<>> when absent, <<v>> when present.  *)
(***************************************************************************)
EXTENDS Integers, Sequences, FiniteSets, TLC

VARIABLES
    now,                \* the wall clock, Date.now()
    lastCleanup,        \* let lastCleanup
    usedSessionIds,     \* Map sessionId -> timestamp
    recentRedemptions,  \* Map `${userId}-${campaignId}` -> timestamp
    call,               \* the last verifyRedemption call: its inputs and what it returned
    history,            \* every success so far: sessionId, (userId, campaignId) -> its time
    handlers            \* the POST /api/verify handlers in flight

vars == <<now, lastCleanup, usedSessionIds, recentRedemptions, call, history, handlers>>

None == <<>>
Some(v) == <<v>>

Abs(x) == IF x < 0 THEN -x ELSE x
Min(a, b) == IF a < b THEN a ELSE b

(***************************************************************************)
(* Program constants.                                                      *)
(***************************************************************************)
CLEANUP_INTERVAL == 5 * 60 * 1000
SESSION_TTL == 24 * 60 * 60 * 1000
RATE_LIMIT_WINDOW == 24 * 60 * 60 * 1000
DRIVING == 35
MAX_POSSIBLE == 100
TOTP_WINDOW == 30000
MAX_DRIFT == 60000
ZONE_GRACE == 20
REJECT_THRESHOLD == 70

(***************************************************************************)
(* Map operations (JavaScript Map): a map is a function whose domain is    *)
(* the set of its keys.                                                    *)
(***************************************************************************)
EmptyMap == [k \in {} |-> 0]
MapHas(m, k) == k \in DOMAIN m
MapSet(m, k, v) == [x \in (DOMAIN m) \cup {k} |-> IF x = k THEN v ELSE m[x]]
MapDelete(m, keys) == [x \in (DOMAIN m) \ keys |-> m[x]]

(***************************************************************************)
(* getDistance: the haversine distance.  Every coordinate of the model     *)
(* lies on one meridian (lng1 = lng2), where a = sin^2(dphi/2), so         *)
(* c = 2 atan2(sqrt a, sqrt (1-a)) = |dphi| and the distance is            *)
(* R * |dphi| = 6371e3 * pi / 180 * |lat2 - lat1| metres: 1111.95 mm per   *)
(* 1e-5 degree.                                                            *)
(***************************************************************************)
getDistance(lat1, lng1, lat2, lng2) ==
    (Abs(lat2 - lat1) * 111195) \div 100

(***************************************************************************)
(* analyzeTelemetry.  A sample is                                          *)
(*   [latitude, longitude, accuracy, altitude (optional), timestamp];      *)
(* a flag is [type, severity, message] (the message without the numbers    *)
(* the code formats into it).  acc is the pair (flags, riskScore) the code *)
(* accumulates.                                                            *)
(***************************************************************************)
Flag(t, s, m) == [type |-> t, severity |-> s, message |-> m]

Raise(acc, flag, increment) ==
    [flags |-> Append(acc.flags, flag), riskScore |-> acc.riskScore + increment]

\* [...telemetry].sort((a, b) => a.timestamp - b.timestamp): a stable sort.
RECURSIVE InsertByTimestamp(_, _)
InsertByTimestamp(s, x) ==
    IF s = <<>> THEN <<x>>
    ELSE IF s[Len(s)].timestamp <= x.timestamp THEN Append(s, x)
    ELSE Append(InsertByTimestamp(SubSeq(s, 1, Len(s) - 1), x), s[Len(s)])

RECURSIVE SortByTimestamp(_)
SortByTimestamp(telemetry) ==
    IF telemetry = <<>> THEN <<>>
    ELSE InsertByTimestamp(SortByTimestamp(SubSeq(telemetry, 1, Len(telemetry) - 1)),
                           telemetry[Len(telemetry)])

\* The speed check flagging any pair above the driving speed, however short the hop.
RECURSIVE speedCheck_NoDistanceFloor(_, _, _)
speedCheck_NoDistanceFloor(sorted, i, acc) ==
    IF i > Len(sorted) THEN acc
    ELSE LET prev == sorted[i - 1]
             curr == sorted[i]
             distance == getDistance(prev.latitude, prev.longitude,
                                     curr.latitude, curr.longitude)
             timeDelta == curr.timestamp - prev.timestamp
         IN  speedCheck_NoDistanceFloor(sorted, i + 1,
                IF timeDelta > 0
                THEN IF distance > MAX_POSSIBLE * timeDelta
                     THEN Raise(acc, Flag("IMPOSSIBLE_SPEED", "CRITICAL", "Teleportation detected"), 100)
                     ELSE IF distance > DRIVING * timeDelta
                          THEN Raise(acc, Flag("IMPOSSIBLE_SPEED", "HIGH", "Suspicious speed"), 30)
                          ELSE acc
                ELSE acc)

\* 1. IMPOSSIBLE SPEED CHECK: the loop over consecutive pairs, from pair i on.
RECURSIVE speedCheck(_, _, _)
speedCheck(sorted, i, acc) ==
    IF i > Len(sorted) THEN acc
    ELSE LET prev == sorted[i - 1]
             curr == sorted[i]
             distance == getDistance(prev.latitude, prev.longitude,
                                     curr.latitude, curr.longitude)
             timeDelta == curr.timestamp - prev.timestamp
         IN  speedCheck(sorted, i + 1,
                IF timeDelta > 0
                THEN IF distance > MAX_POSSIBLE * timeDelta
                     THEN Raise(acc, Flag("IMPOSSIBLE_SPEED", "CRITICAL", "Teleportation detected"), 100)
                     ELSE IF distance > DRIVING * timeDelta /\ distance > 100 * 1000
                          THEN Raise(acc, Flag("IMPOSSIBLE_SPEED", "HIGH", "Suspicious speed"), 30)
                          ELSE acc
                ELSE acc)

RECURSIVE SumSeq(_)
SumSeq(s) == IF s = <<>> THEN 0 ELSE s[1] + SumSeq(Tail(s))

\* 2. ACCURACY ANOMALY CHECK: |a - avg| > 50 with avg = sum / n, times n.
accuracyCheck(sorted, acc) ==
    LET accuracies == [i \in 1..Len(sorted) |-> sorted[i].accuracy]
        n == Len(accuracies)
        total == SumSeq(accuracies)
        hasWildAccuracySwings == \E i \in 1..n : Abs(accuracies[i] * n - total) > 50 * n
    IN  IF hasWildAccuracySwings
        THEN Raise(acc, Flag("ACCURACY_ANOMALY", "MEDIUM", "GPS accuracy fluctuating abnormally"), 20)
        ELSE acc

\* The static-coordinates check adding 60 for its CRITICAL flag.
staticCheck_Adds60(sorted, acc) ==
    LET perfectCoords == SelectSeq(sorted, LAMBDA t : t.latitude = sorted[1].latitude
                                                    /\ t.longitude = sorted[1].longitude)
    IN  IF Len(perfectCoords) = Len(sorted) /\ Len(sorted) > 5
        THEN Raise(acc, Flag("GPS_SPOOF", "CRITICAL", "Coordinates are perfectly static - definite spoof"), 60)
        ELSE acc

\* 3. PERFECT COORDINATES
staticCheck(sorted, acc) ==
    LET perfectCoords == SelectSeq(sorted, LAMBDA t : t.latitude = sorted[1].latitude
                                                    /\ t.longitude = sorted[1].longitude)
    IN  IF Len(perfectCoords) = Len(sorted) /\ Len(sorted) > 5
        THEN Raise(acc, Flag("GPS_SPOOF", "CRITICAL", "Coordinates are perfectly static - definite spoof"), 100)
        ELSE acc

\* The drift check taking only a client clock that is behind for drift.
driftCheck_BehindOnly(sorted, serverTime, acc) ==
    LET clientTime == sorted[Len(sorted)].timestamp
        drift == serverTime - clientTime
    IN  IF drift > MAX_DRIFT
        THEN Raise(acc, Flag("TIMESTAMP_DRIFT", "MEDIUM", "Client clock drift"), 25)
        ELSE acc

\* 4. TIMESTAMP DRIFT CHECK
driftCheck(sorted, serverTime, acc) ==
    LET clientTime == sorted[Len(sorted)].timestamp
        drift == Abs(serverTime - clientTime)
    IN  IF drift > MAX_DRIFT
        THEN Raise(acc, Flag("TIMESTAMP_DRIFT", "MEDIUM", "Client clock drift"), 25)
        ELSE acc

\* 5. ALTITUDE CONSISTENCY
altitudeCheck(sorted, acc) ==
    LET withAltitude == SelectSeq(sorted, LAMBDA t : t.altitude # None)
        altitudes == {withAltitude[i].altitude[1] : i \in 1..Len(withAltitude)}
        highest == CHOOSE a \in altitudes : \A b \in altitudes : b <= a
        lowest == CHOOSE a \in altitudes : \A b \in altitudes : a <= b
    IN  IF Len(withAltitude) > 3 /\ highest - lowest > 500
        THEN Raise(acc, Flag("ALTITUDE_MISMATCH", "MEDIUM", "Altitude variance is suspicious"), 15)
        ELSE acc

\* 6. DWELL TIME VERIFICATION
InZone(t, campaign) ==
    getDistance(t.latitude, t.longitude, campaign.coordinates.lat, campaign.coordinates.lng)
        <= (campaign.radius + ZONE_GRACE) * 1000

\* actualDwellTime in milliseconds (the code divides by 1000).
actualDwellTime(sorted, campaign) ==
    LET timeInZone == SelectSeq(sorted, LAMBDA t : InZone(t, campaign))
    IN  IF Len(timeInZone) > 1
        THEN timeInZone[Len(timeInZone)].timestamp - timeInZone[1].timestamp
        ELSE 0

\* The dwell check flagging a dwell of exactly 0.8 times the required one as well.
dwellCheck_AtMost(sorted, campaign, acc) ==
    IF actualDwellTime(sorted, campaign) * 10 <= campaign.dwellTimeRequired * 8 * 1000
    THEN Raise(acc, Flag("GPS_SPOOF", "HIGH", "Dwell time is below required"), 35)
    ELSE acc

\* actualDwellTime / 1000 < dwellTimeRequired * 0.8, times 10000.
dwellCheck(sorted, campaign, acc) ==
    IF actualDwellTime(sorted, campaign) * 10 < campaign.dwellTimeRequired * 8 * 1000
    THEN Raise(acc, Flag("GPS_SPOOF", "HIGH", "Dwell time is below required"), 35)
    ELSE acc

\* analyzeTelemetry returning the sum of the increments as it is.
analyzeTelemetry_Unclamped(telemetry, campaign, serverTime) ==
    LET start == [flags |-> <<>>, riskScore |-> 0]
    IN  IF Len(telemetry) < 2
        THEN Raise(start, Flag("GPS_SPOOF", "HIGH",
                               "Insufficient telemetry data - possible single-point spoof"), 40)
        ELSE LET sorted == SortByTimestamp(telemetry)
             IN  dwellCheck(sorted, campaign,
                   altitudeCheck(sorted,
                     driftCheck(sorted, serverTime,
                       staticCheck(sorted,
                         accuracyCheck(sorted, speedCheck(sorted, 2, start))))))

\* analyzeTelemetry taking one sample for sufficient (length < 1).
analyzeTelemetry_OneSampleAnalysed(telemetry, campaign, serverTime) ==
    LET start == [flags |-> <<>>, riskScore |-> 0]
    IN  IF Len(telemetry) < 1
        THEN Raise(start, Flag("GPS_SPOOF", "HIGH",
                               "Insufficient telemetry data - possible single-point spoof"), 40)
        ELSE LET sorted == SortByTimestamp(telemetry)
                 checked == dwellCheck(sorted, campaign,
                              altitudeCheck(sorted,
                                driftCheck(sorted, serverTime,
                                  staticCheck(sorted,
                                    accuracyCheck(sorted, speedCheck(sorted, 2, start))))))
             IN  [flags |-> checked.flags, riskScore |-> Min(checked.riskScore, 100)]

\* analyzeTelemetry returning as soon as a check has brought the score to 100.
analyzeTelemetry_StopsAtCritical(telemetry, campaign, serverTime) ==
    LET start == [flags |-> <<>>, riskScore |-> 0]
    IN  IF Len(telemetry) < 2
        THEN Raise(start, Flag("GPS_SPOOF", "HIGH",
                               "Insufficient telemetry data - possible single-point spoof"), 40)
        ELSE LET sorted == SortByTimestamp(telemetry)
                 a1 == speedCheck(sorted, 2, start)
                 a2 == IF a1.riskScore >= 100 THEN a1 ELSE accuracyCheck(sorted, a1)
                 a3 == IF a2.riskScore >= 100 THEN a2 ELSE staticCheck(sorted, a2)
                 a4 == IF a3.riskScore >= 100 THEN a3 ELSE driftCheck(sorted, serverTime, a3)
                 a5 == IF a4.riskScore >= 100 THEN a4 ELSE altitudeCheck(sorted, a4)
                 a6 == IF a5.riskScore >= 100 THEN a5 ELSE dwellCheck(sorted, campaign, a5)
             IN  [flags |-> a6.flags, riskScore |-> Min(a6.riskScore, 100)]

analyzeTelemetry(telemetry, campaign, serverTime) ==
    LET start == [flags |-> <<>>, riskScore |-> 0]
    IN  IF Len(telemetry) < 2
        THEN Raise(start, Flag("GPS_SPOOF", "HIGH",
                               "Insufficient telemetry data - possible single-point spoof"), 40)
        ELSE LET sorted == SortByTimestamp(telemetry)
                 a1 == speedCheck(sorted, 2, start)
                 a2 == accuracyCheck(sorted, a1)
                 a3 == staticCheck(sorted, a2)
                 a4 == driftCheck(sorted, serverTime, a3)
                 a5 == altitudeCheck(sorted, a4)
                 a6 == dwellCheck(sorted, campaign, a5)
             IN  [flags |-> a6.flags, riskScore |-> Min(a6.riskScore, 100)]

(***************************************************************************)
(* isWithinBusinessHours.  A BusinessHours entry is                        *)
(* [dayOfWeek, openTime, closeTime]; an "HH:MM" string is the sequence of  *)
(* its UTF-16 code units ("0" = 48 ... "9" = 57, ":" = 58), which is what  *)
(* the < and > of JavaScript strings compare.                              *)
(***************************************************************************)
MS_PER_DAY == 24 * 60 * 60 * 1000

\* The UTC offset of an IANA zone (neither zone has daylight saving time).
TimezoneOffset(tz) ==
    CASE tz = "Africa/Nairobi" -> 3 * 60 * 60 * 1000
      [] tz = "UTC" -> 0

\* The zone the server process runs in: Date.prototype.getDay() is local to it.
ServerTimezone == "UTC"

\* date.getDay(): 0 = Sunday; 1 January 1970 was a Thursday.
getDay(timestamp) ==
    (((timestamp + TimezoneOffset(ServerTimezone)) \div MS_PER_DAY) + 4) % 7

\* date.toLocaleTimeString('en-US', {hour12: false, hour: '2-digit', minute: '2-digit', timeZone})
toLocaleTimeString(timestamp, timezone) ==
    LET minutes == ((timestamp + TimezoneOffset(timezone)) % MS_PER_DAY) \div 60000
        h == minutes \div 60
        m == minutes % 60
    IN  <<48 + (h \div 10), 48 + (h % 10), 58, 48 + (m \div 10), 48 + (m % 10)>>

\* a < b on strings: the first differing code unit decides, a proper prefix is smaller.
RECURSIVE StrLess(_, _)
StrLess(a, b) ==
    IF b = <<>> THEN FALSE
    ELSE IF a = <<>> THEN TRUE
    ELSE IF a[1] # b[1] THEN a[1] < b[1]
    ELSE StrLess(Tail(a), Tail(b))

\* isWithinBusinessHours turning away the minute of openTime and that of closeTime.
isWithinBusinessHours_BoundsExcluded(timestamp, hours, timezone) ==
    LET dayOfWeek == getDay(timestamp)
        found == {i \in 1..Len(hours) : hours[i].dayOfWeek = dayOfWeek}
    IN  IF found = {}
        THEN [valid |-> FALSE, message |-> "Business closed today"]
        ELSE LET todayHours == hours[CHOOSE i \in found : \A j \in found : i <= j]
                 timeStr == toLocaleTimeString(timestamp, timezone)
             IN  IF ~StrLess(todayHours.openTime, timeStr) \/ ~StrLess(timeStr, todayHours.closeTime)
                 THEN [valid |-> FALSE, message |-> "Business hours are openTime - closeTime"]
                 ELSE [valid |-> TRUE, message |-> ""]

isWithinBusinessHours(timestamp, hours, timezone) ==
    LET dayOfWeek == getDay(timestamp)
        found == {i \in 1..Len(hours) : hours[i].dayOfWeek = dayOfWeek}
    IN  IF found = {}
        THEN [valid |-> FALSE, message |-> "Business closed today"]
        ELSE LET todayHours == hours[CHOOSE i \in found : \A j \in found : i <= j]
                 timeStr == toLocaleTimeString(timestamp, timezone)
             IN  IF StrLess(timeStr, todayHours.openTime) \/ StrLess(todayHours.closeTime, timeStr)
                 THEN [valid |-> FALSE, message |-> "Business hours are openTime - closeTime"]
                 ELSE [valid |-> TRUE, message |-> ""]

(***************************************************************************)
(* The redemption token.  Every Date.now() of the code is a reading of the *)
(* clock of its own, passed as a parameter; two readings in one call may   *)
(* differ.  The HMAC-SHA256 of generateTOTP and the six digits taken from  *)
(* it are a function of the message `${secret}-${counter}`, two messages   *)
(* giving two codes.  A JSON object is a function from its field names, a  *)
(* serialisation is tagged with its format.                                *)
(***************************************************************************)
\* timestamp: None when the argument is absent; clock: the Date.now() of line 709,
\* read when timestamp is absent or 0 (timestamp || Date.now()).
generateTOTP(secret, timestamp, clock) ==
    LET time == IF timestamp = None \/ timestamp = Some(0) THEN clock ELSE timestamp[1]
        counter == time \div TOTP_WINDOW
    IN  [secret |-> secret, counter |-> counter]

\* clock: the Date.now() of line 729 (a Date.now() read by generateTOTP for a
\* timestamp of 0 comes later; it is taken to give the same reading).
verifyTOTP(code, secret, windowSize, clock) ==
    \E i \in (0 - windowSize)..windowSize :
        generateTOTP(secret, Some(clock + i * TOTP_WINDOW), clock) = code

\* JSON.stringify, then Buffer.from(...).toString('base64').
stringify(value) == [json |-> value]
toBase64(text) == [base64 |-> text]

\* `${redemptionId}-${userId}-${campaignId}`
tokenSecret(redemptionId, userId, campaignId) ==
    redemptionId \o "-" \o userId \o "-" \o campaignId

\* clock1: the Date.now() of generateTOTP (line 749); clock2: that of line 750.
generateSecureQRPayload(redemptionId, userId, campaignId, clock1, clock2) ==
    LET secret == tokenSecret(redemptionId, userId, campaignId)
        totp == generateTOTP(secret, None, clock1)
        expiresAt == clock2 + TOTP_WINDOW
        payload == stringify([rid |-> redemptionId, uid |-> userId, cid |-> campaignId,
                              code |-> totp, exp |-> expiresAt])
    IN  [payload |-> toBase64(payload), expiresAt |-> expiresAt]

\* Buffer.from(encodedPayload, 'base64').toString(): the text, or some bytes that are
\* no JSON for a string that is no base64 of a JSON text.
fromBase64(encodedPayload) ==
    IF DOMAIN encodedPayload = {"base64"} THEN encodedPayload.base64
    ELSE [bytes |-> encodedPayload]

\* JSON.parse: the value, or a SyntaxError.
parse(text) ==
    IF DOMAIN text = {"json"} THEN [thrown |-> FALSE, value |-> text.json]
    ELSE [thrown |-> TRUE, value |-> [null |-> TRUE]]

\* payload.field: a TypeError on null, undefined (None) when the value has no such field.
throwsOnRead(value) == DOMAIN value = {"null"}
read(value, field) == IF field \in DOMAIN value THEN Some(value[field]) ELSE None

\* `${x}` of a field: "undefined" when it is absent.
interpolate(x) == IF x = None THEN "undefined" ELSE x[1]

\* verifyQRPayload checking the code before the expiry.
verifyQRPayload_CodeFirst(encodedPayload, clock1, clock2) ==
    LET parsed == parse(fromBase64(encodedPayload))
        payload == parsed.value
        exp == read(payload, "exp")
        secret == tokenSecret(interpolate(read(payload, "rid")),
                              interpolate(read(payload, "uid")),
                              interpolate(read(payload, "cid")))
    IN  IF parsed.thrown \/ throwsOnRead(payload)
        THEN [valid |-> FALSE, data |-> None, error |-> Some("Invalid QR payload")]
        ELSE IF read(payload, "code") = None
                \/ ~verifyTOTP(read(payload, "code")[1], secret, 1, clock2)
        THEN [valid |-> FALSE, data |-> None, error |-> Some("Invalid verification code")]
        ELSE IF exp # None /\ clock1 > exp[1]
        THEN [valid |-> FALSE, data |-> None, error |-> Some("QR code expired")]
        ELSE [valid |-> TRUE,
              data |-> Some([redemptionId |-> read(payload, "rid"),
                             userId |-> read(payload, "uid"),
                             campaignId |-> read(payload, "cid")]),
              error |-> None]

\* clock1: the Date.now() of line 777; clock2: that of verifyTOTP (line 729).
\* Date.now() > undefined is false: a payload without exp does not expire here.
verifyQRPayload(encodedPayload, clock1, clock2) ==
    LET parsed == parse(fromBase64(encodedPayload))
        payload == parsed.value
        exp == read(payload, "exp")
        secret == tokenSecret(interpolate(read(payload, "rid")),
                              interpolate(read(payload, "uid")),
                              interpolate(read(payload, "cid")))
    IN  IF parsed.thrown \/ throwsOnRead(payload)
        THEN [valid |-> FALSE, data |-> None, error |-> Some("Invalid QR payload")]
        ELSE IF exp # None /\ clock1 > exp[1]
        THEN [valid |-> FALSE, data |-> None, error |-> Some("QR code expired")]
        ELSE IF read(payload, "code") = None
                \/ ~verifyTOTP(read(payload, "code")[1], secret, 1, clock2)
        THEN [valid |-> FALSE, data |-> None, error |-> Some("Invalid verification code")]
        ELSE [valid |-> TRUE,
              data |-> Some([redemptionId |-> read(payload, "rid"),
                             userId |-> read(payload, "uid"),
                             campaignId |-> read(payload, "cid")]),
              error |-> None]

(***************************************************************************)
(* The replay / rate-limit guard and verifyRedemption.                     *)
(***************************************************************************)
\* cleanupExpiredSessions deleting the entries that are exactly SESSION_TTL old too.
cleanupExpiredSessions_DeletesAtTtl ==
    IF now - lastCleanup < CLEANUP_INTERVAL
    THEN [lastCleanup |-> lastCleanup,
          usedSessionIds |-> usedSessionIds,
          recentRedemptions |-> recentRedemptions]
    ELSE [lastCleanup |-> now,
          usedSessionIds |->
              MapDelete(usedSessionIds, {k \in DOMAIN usedSessionIds : now - usedSessionIds[k] >= SESSION_TTL}),
          recentRedemptions |->
              MapDelete(recentRedemptions, {k \in DOMAIN recentRedemptions : now - recentRedemptions[k] >= SESSION_TTL})]

\* cleanupExpiredSessions not sweeping when exactly CLEANUP_INTERVAL has passed.
cleanupExpiredSessions_SkipsAtInterval ==
    IF now - lastCleanup <= CLEANUP_INTERVAL
    THEN [lastCleanup |-> lastCleanup,
          usedSessionIds |-> usedSessionIds,
          recentRedemptions |-> recentRedemptions]
    ELSE [lastCleanup |-> now,
          usedSessionIds |->
              MapDelete(usedSessionIds, {k \in DOMAIN usedSessionIds : now - usedSessionIds[k] > SESSION_TTL}),
          recentRedemptions |->
              MapDelete(recentRedemptions, {k \in DOMAIN recentRedemptions : now - recentRedemptions[k] > SESSION_TTL})]

\* cleanupExpiredSessions sweeping usedSessionIds only.
cleanupExpiredSessions_SessionsOnly ==
    IF now - lastCleanup < CLEANUP_INTERVAL
    THEN [lastCleanup |-> lastCleanup,
          usedSessionIds |-> usedSessionIds,
          recentRedemptions |-> recentRedemptions]
    ELSE [lastCleanup |-> now,
          usedSessionIds |->
              MapDelete(usedSessionIds, {k \in DOMAIN usedSessionIds : now - usedSessionIds[k] > SESSION_TTL}),
          recentRedemptions |-> recentRedemptions]

\* cleanupExpiredSessions deleting entries from 5 minutes before they are 24 hours old.
cleanupExpiredSessions_SweepsEarly ==
    IF now - lastCleanup < CLEANUP_INTERVAL
    THEN [lastCleanup |-> lastCleanup,
          usedSessionIds |-> usedSessionIds,
          recentRedemptions |-> recentRedemptions]
    ELSE [lastCleanup |-> now,
          usedSessionIds |->
              MapDelete(usedSessionIds, {k \in DOMAIN usedSessionIds :
                                            now - usedSessionIds[k] > SESSION_TTL - CLEANUP_INTERVAL}),
          recentRedemptions |->
              MapDelete(recentRedemptions, {k \in DOMAIN recentRedemptions :
                                               now - recentRedemptions[k] > SESSION_TTL - CLEANUP_INTERVAL})]

\* What cleanupExpiredSessions leaves in the three module-level variables.
cleanupExpiredSessions ==
    IF now - lastCleanup < CLEANUP_INTERVAL
    THEN [lastCleanup |-> lastCleanup,
          usedSessionIds |-> usedSessionIds,
          recentRedemptions |-> recentRedemptions]
    ELSE [lastCleanup |-> now,
          usedSessionIds |->
              MapDelete(usedSessionIds, {k \in DOMAIN usedSessionIds : now - usedSessionIds[k] > SESSION_TTL}),
          recentRedemptions |->
              MapDelete(recentRedemptions, {k \in DOMAIN recentRedemptions : now - recentRedemptions[k] > SESSION_TTL})]

\* A VerificationResult; fraudFlags, redemptionId, totpCode and expiresAt are optional.
Rejected(error, riskScore, fraudFlags) ==
    [success |-> FALSE, error |-> Some(error), riskScore |-> riskScore,
     fraudFlags |-> Some(fraudFlags),
     redemptionId |-> None, totpCode |-> None, expiresAt |-> None]

\* What one call leaves in the guard, what it returns, and what analyzeTelemetry
\* returned in it (None when it was not run).
Outcome(guard, result, analysis) ==
    [lastCleanup |-> guard.lastCleanup,
     usedSessionIds |-> guard.usedSessionIds,
     recentRedemptions |-> guard.recentRedemptions,
     result |-> result,
     analysis |-> analysis]

\* `${request.userId}-${request.campaignId}`
userCampaignKey(request) == request.userId \o "-" \o request.campaignId

\* 1. REPLAY ATTACK CHECK
replayCheck(guard, request) == MapHas(guard.usedSessionIds, request.sessionId)

\* The rate limit still applying when exactly 24 hours have passed.
rateLimitCheck_Inclusive(guard, request) ==
    /\ MapHas(guard.recentRedemptions, request.userId \o "-" \o request.campaignId)
    /\ now - guard.recentRedemptions[request.userId \o "-" \o request.campaignId]
          <= RATE_LIMIT_WINDOW

\* 2. RATE LIMITING: lastRedemption && Date.now() - lastRedemption < 24 * 60 * 60 * 1000
rateLimitCheck(guard, request) ==
    LET key == userCampaignKey(request)
    IN  /\ MapHas(guard.recentRedemptions, key)
        /\ guard.recentRedemptions[key] # 0
        /\ now - guard.recentRedemptions[key] < RATE_LIMIT_WINDOW

\* 3. BUSINESS HOURS CHECK; timezone defaults to 'Africa/Nairobi'.
hoursCheck(request, campaign) ==
    IF campaign.businessHours # None /\ Len(campaign.businessHours[1]) > 0
    THEN isWithinBusinessHours(request.clientTimestamp, campaign.businessHours[1],
                               IF campaign.timezone = None THEN "Africa/Nairobi"
                               ELSE campaign.timezone[1])
    ELSE [valid |-> TRUE, message |-> ""]

\* 5. DECISION, the rejection: the score and the flags of the analysis are returned.
suspicious(guard, analysis) ==
    Outcome(guard,
            Rejected("Verification failed: Suspicious activity detected",
                     analysis.riskScore, analysis.flags),
            Some(analysis))

\* 6. SUCCESS, usedSessionIds.set and recentRedemptions.set.
record(guard, request) ==
    [lastCleanup |-> guard.lastCleanup,
     usedSessionIds |-> MapSet(guard.usedSessionIds, request.sessionId, now),
     recentRedemptions |-> MapSet(guard.recentRedemptions, userCampaignKey(request), now)]

\* 6. SUCCESS, the redemption id, the token and the result.
issue(guard, request, analysis, random) ==
    LET redemptionId == "r_" \o ToString(now) \o "_" \o random
        qr == generateSecureQRPayload(redemptionId, request.userId, request.campaignId,
                                      now, now)
    IN  Outcome(guard,
                [success |-> TRUE, error |-> None, riskScore |-> analysis.riskScore,
                 fraudFlags |-> IF Len(analysis.flags) > 0 THEN Some(analysis.flags) ELSE None,
                 redemptionId |-> Some(redemptionId),
                 totpCode |-> Some(qr.payload),
                 expiresAt |-> Some(qr.expiresAt)],
                Some(analysis))

\* The decision rejecting only above the threshold.
decide_Above70(guard, request, analysis, random) ==
    IF analysis.riskScore > REJECT_THRESHOLD
    THEN suspicious(guard, analysis)
    ELSE issue(record(guard, request), request, analysis, random)

\* The session and the redemption recorded before the decision.
decide_RecordsRejected(guard, request, analysis, random) ==
    IF analysis.riskScore >= REJECT_THRESHOLD
    THEN suspicious(record(guard, request), analysis)
    ELSE issue(record(guard, request), request, analysis, random)

\* 5. DECISION and 6. SUCCESS, from the analysis of step 4.
decide(guard, request, analysis, random) ==
    IF analysis.riskScore >= REJECT_THRESHOLD
    THEN suspicious(guard, analysis)
    ELSE issue(record(guard, request), request, analysis, random)

\* The replay rejection, the rate-limit rejection, the business-hours rejection.
replayRejection(guard) ==
    Outcome(guard,
            Rejected("Session already used - possible replay attack", 100,
                     <<Flag("REPLAY_ATTACK", "CRITICAL", "Duplicate session ID detected")>>),
            None)

rateLimitRejection(guard) ==
    Outcome(guard,
            Rejected("Already redeemed this campaign in the last 24 hours", 0, <<>>),
            None)

hoursRejection(guard, hours) ==
    Outcome(guard,
            Rejected(hours.message, 50, <<Flag("BUSINESS_HOURS", "HIGH", hours.message)>>),
            None)

\* verifyRedemption with the rate limit checked before the replay.
verifyRedemption_RateLimitFirst(request, campaign, random) ==
    LET guard == cleanupExpiredSessions
        hours == hoursCheck(request, campaign)
    IN  IF rateLimitCheck(guard, request) THEN rateLimitRejection(guard)
        ELSE IF replayCheck(guard, request) THEN replayRejection(guard)
        ELSE IF ~hours.valid THEN hoursRejection(guard, hours)
        ELSE decide(guard, request,
                    analyzeTelemetry(request.telemetry, campaign, now), random)

\* random: the randomBytes(8) of the redemption id.
verifyRedemption(request, campaign, random) ==
    LET guard == cleanupExpiredSessions
        hours == hoursCheck(request, campaign)
    IN  IF replayCheck(guard, request) THEN replayRejection(guard)
        ELSE IF rateLimitCheck(guard, request) THEN rateLimitRejection(guard)
        ELSE IF ~hours.valid THEN hoursRejection(guard, hours)
        ELSE decide(guard, request,
                    analyzeTelemetry(request.telemetry, campaign, now), random)

(***************************************************************************)
(* The inputs of the model.                                                *)
(***************************************************************************)
\* The clock starts here, at the load of the module (let lastCleanup = Date.now()).
StartTime == 20 * 60 * 1000

\* The readings of the clock: StartTime, + 1 ms, + 5 min, + 24 h, + 24 h 1 ms,
\* + 24 h 5 min, + 48 h ...: two readings are 1 ms, 5 min - 1 ms, 5 min, 24 h - 5 min,
\* 24 h - 1 ms, 24 h, 24 h + 1 ms, 24 h + 5 min ... apart.
MaxInstants == 6
DayOffsets == <<0, 1, CLEANUP_INTERVAL>>
Instant(i) == StartTime + (i \div 3) * SESSION_TTL + DayOffsets[(i % 3) + 1]
Instants == {Instant(i) : i \in 0..(MaxInstants - 1)}

SessionIds == {"s1", "s2"}
UserIds == {"u1", "u2"}
RandomBytes == {"9f"}

\* The centre of every campaign: 1.28600 S, 36.81700 E.
CampaignCentre == [lat |-> -128600, lng |-> 3681700]
CampaignLat == CampaignCentre.lat
CampaignLng == CampaignCentre.lng

\* 08:00 - 22:00 on Thursdays only, as "HH:MM" code units.
ThursdayHours == [dayOfWeek |-> 4, openTime |-> <<48, 56, 58, 48, 48>>,
                  closeTime |-> <<50, 50, 58, 48, 48>>]

Campaign(id, active, businessHours, timezone) ==
    [id |-> id, coordinates |-> CampaignCentre,
     radius |-> 100, dwellTimeRequired |-> 60, active |-> active,
     expiryDate |-> StartTime + 20 * SESSION_TTL,
     businessHours |-> businessHours, timezone |-> timezone]

\* The campaigns table: c1 has no business hours, c3 is switched off, c8 expires
\* 1 ms after the start of the clock.
Campaigns ==
    {Campaign("c1", TRUE, None, None),
     Campaign("c2", TRUE, Some(<<ThursdayHours>>), Some("Africa/Nairobi")),
     Campaign("c3", FALSE, None, None),
     [Campaign("c8", TRUE, None, None) EXCEPT !.expiryDate = StartTime + 1]}

\* getCampaignById: the row, or null (None).
getCampaignById(id) ==
    IF \E c \in Campaigns : c.id = id
    THEN Some(CHOOSE c \in Campaigns : c.id = id)
    ELSE None

Sample(latitude, accuracy, altitude, timestamp) ==
    [latitude |-> latitude, longitude |-> CampaignLng, accuracy |-> accuracy,
     altitude |-> altitude, timestamp |-> timestamp]

\* The telemetry a client may send at time t (1 unit of latitude is 1.112 m; the zone
\* of a campaign is 120 m, 107 units, around CampaignLat; the enforced dwell is 48 s).
InsideFor60s(t) ==      \* no flag: riskScore 0
    <<Sample(CampaignLat, 10, None, t - 60000), Sample(CampaignLat + 2, 10, None, t)>>
Teleport(t) ==          \* 11 km in 1 s, and no dwell: 100 + 35
    <<Sample(CampaignLat, 10, None, t - 1000), Sample(CampaignLat + 10000, 10, None, t)>>
Driving(t) ==           \* 200 m in 5 s, and no dwell: 30 + 35
    <<Sample(CampaignLat, 10, None, t - 5000), Sample(CampaignLat + 180, 10, None, t)>>
Erratic(t) ==           \* 9 s of dwell, a wild accuracy, a wild altitude: 20 + 15 + 35
    <<Sample(CampaignLat, 5, Some(1600), t - 9000),
      Sample(CampaignLat, 5, Some(1600), t - 6000),
      Sample(CampaignLat + 1, 5, Some(1600), t - 3000),
      Sample(CampaignLat + 1, 300, Some(2200), t)>>

Telemetries(t) == {<<>>, InsideFor60s(t), Teleport(t), Driving(t), Erratic(t)}

\* Thursday 1 January 1970, 10:00 and 23:30 in Nairobi.
OpenTimestamp == 7 * 60 * 60 * 1000
ClosedTimestamp == 20 * 60 * 60 * 1000 + 30 * 60 * 1000

Request(sessionId, userId, campaignId, telemetry, clientTimestamp) ==
    [sessionId |-> sessionId, userId |-> userId, campaignId |-> campaignId,
     telemetry |-> telemetry, deviceFingerprint |-> "fp",
     clientTimestamp |-> clientTimestamp]

\* The VerificationRequest bodies a client may send at time t: every telemetry for the
\* campaign without business hours, every client timestamp for the one with them.
Requests(t) ==
    {Request(s, u, "c1", tel, OpenTimestamp) :
        s \in SessionIds, u \in UserIds, tel \in Telemetries(t)}
    \cup {Request(s, "u1", "c2", tel, ts) :
        s \in SessionIds, tel \in {InsideFor60s(t), Teleport(t)},
        ts \in {OpenTimestamp, ClosedTimestamp}}

\* The POST /api/verify handlers that may run at once.
HandlerIds == {"h1", "h2"}
IdleHandler ==
    [pc |-> "idle", body |-> None, receivedAt |-> None,
     response |-> None, respondedAt |-> None]

\* The request layer answers, or gives up, within this time.
RequestDeadline == CLEANUP_INTERVAL

\* A JSON body: telemetry may be missing (None), sessionId may be empty.
Body(sessionId, userId, campaignId, telemetry, clientTimestamp) ==
    [sessionId |-> sessionId, userId |-> userId, campaignId |-> campaignId,
     telemetry |-> telemetry, deviceFingerprint |-> "fp",
     clientTimestamp |-> clientTimestamp]

\* The bodies a client may post at time t: "c9" is no campaign.
Bodies(t) ==
    {Body(s, u, "c1", Some(tel), t) :
        s \in SessionIds, u \in UserIds, tel \in {InsideFor60s(t), Teleport(t)}}
    \cup {Body("", "u1", "c1", Some(InsideFor60s(t)), t),
          Body("s1", "u1", "c1", None, t),
          Body("s1", "u1", "c9", Some(InsideFor60s(t)), t),
          Body("s1", "u1", "c3", Some(InsideFor60s(t)), t)}

(***************************************************************************)
(* The state machine: the clock advances, and verifyRedemption is called.  *)
(***************************************************************************)
Init ==
    /\ now = StartTime
    /\ lastCleanup = StartTime
    /\ usedSessionIds = EmptyMap
    /\ recentRedemptions = EmptyMap
    /\ call = None
    /\ history = [sessions |-> EmptyMap, pairs |-> EmptyMap]
    /\ handlers = [h \in HandlerIds |-> IdleHandler]

Tick ==
    /\ \E t \in Instants : t > now /\ now' = t
    /\ UNCHANGED <<lastCleanup, usedSessionIds, recentRedemptions, call, history, handlers>>

\* The time of the last success before this call, of a session id or of a key.
Prior(map, k) == IF MapHas(map, k) THEN Some(map[k]) ELSE None

\* One call of verifyRedemption(request, campaign), run to its return.
Verify(request, campaign, random) ==
    LET pair == <<request.userId, request.campaignId>>
    IN  \E out \in {verifyRedemption(request, campaign, random)} :
        /\ lastCleanup' = out.lastCleanup
        /\ usedSessionIds' = out.usedSessionIds
        /\ recentRedemptions' = out.recentRedemptions
        /\ call' = Some([request |-> request, time |-> now, result |-> out.result,
                         analysis |-> out.analysis,
                         priorSession |-> Prior(history.sessions, request.sessionId),
                         priorPair |-> Prior(history.pairs, pair)])
        /\ history' = IF out.result.success
                      THEN [sessions |-> MapSet(history.sessions, request.sessionId, now),
                            pairs |-> MapSet(history.pairs, pair, now)]
                      ELSE history

VerifyRedemption ==
    /\ \E request \in Requests(now), random \in RandomBytes :
           Verify(request, getCampaignById(request.campaignId)[1], random)
    /\ UNCHANGED <<now, handlers>>

Next == Tick \/ VerifyRedemption

Spec == Init /\ [][Next]_vars

(***************************************************************************)
(* analyzeTelemetry on its own: one call of verifyRedemption on a fresh    *)
(* guard, for a campaign without business hours, with any telemetry of at  *)
(* most MaxSamples samples, each at the centre of the zone or 200 m from   *)
(* it, taken now or 1 s, 5 s, 1 min or 3 min 20 s ago, or with one of the  *)
(* telemetries below, which sit on the thresholds of the six checks.       *)
(***************************************************************************)
MaxSamples == 3

SampleSpace(t) ==
    {Sample(latitude, 10, None, timestamp) :
        latitude \in {CampaignLat, CampaignLat + 180},
        timestamp \in {t, t - 1000, t - 5000, t - 60000, t - 200000}}

\* n samples at one place, 12 s apart, the last one now.
RECURSIVE Still(_, _)
Still(t, n) ==
    IF n = 0 THEN <<>>
    ELSE Append(Still(t - 12000, n - 1), Sample(CampaignLat, 10, None, t))

\* Four samples 20 s apart with these altitudes.
Climb(t, a1, a2, a3, a4) ==
    <<Sample(CampaignLat, 10, Some(a1), t - 60000), Sample(CampaignLat + 1, 10, Some(a2), t - 40000),
      Sample(CampaignLat, 10, Some(a3), t - 20000), Sample(CampaignLat + 1, 10, Some(a4), t)>>

Thresholds(t) ==
    {InsideFor60s(t), Teleport(t), Driving(t), Erratic(t),
     \* static coordinates: 6 samples are flagged, 5 are not; 6 stale ones outside
     Still(t, 6), Still(t, 5),
     [i \in 1..6 |-> [Still(t - 70000, 6)[i] EXCEPT !.latitude = CampaignLat + 180]],
     \* accuracy: 145 m from the average, and exactly 50 m from it
     <<Sample(CampaignLat, 10, None, t - 60000), Sample(CampaignLat + 1, 300, None, t)>>,
     <<Sample(CampaignLat, 10, None, t - 60000), Sample(CampaignLat + 1, 110, None, t)>>,
     \* altitude: a range of 501 m, of 500 m, and of 900 m on 3 samples with altitude
     Climb(t, 1000, 1000, 1000, 1501), Climb(t, 1000, 1000, 1000, 1500),
     [Climb(t, 1000, 1900, 1000, 1000) EXCEPT ![4].altitude = None],
     \* speed: 89 m in 2 s (44 m/s, 100 m not exceeded), after a minute in the zone
     <<Sample(CampaignLat, 10, None, t - 62000), Sample(CampaignLat, 10, None, t - 2000),
       Sample(CampaignLat + 80, 10, None, t)>>,
     \* drift: the last sample 60.001 s old, and 60.001 s ahead of the server
     <<Sample(CampaignLat, 10, None, t - 120001), Sample(CampaignLat + 1, 10, None, t - 60001)>>,
     <<Sample(CampaignLat, 10, None, t), Sample(CampaignLat + 1, 10, None, t + 60001)>>,
     \* dwell: 48 s, 47.999 s; in the zone, out of it, in it again; the edge of the zone
     <<Sample(CampaignLat, 10, None, t - 48000), Sample(CampaignLat + 1, 10, None, t)>>,
     <<Sample(CampaignLat, 10, None, t - 47999), Sample(CampaignLat + 1, 10, None, t)>>,
     <<Sample(CampaignLat, 10, None, t - 60000), Sample(CampaignLat + 180, 10, None, t - 30000),
       Sample(CampaignLat + 1, 10, None, t)>>,
     <<Sample(CampaignLat + 107, 10, None, t - 60000), Sample(CampaignLat - 107, 10, None, t)>>,
     <<Sample(CampaignLat + 108, 10, None, t - 60000), Sample(CampaignLat - 107, 10, None, t)>>}

TelemetrySeqs(t) ==
    UNION {[1..n -> SampleSpace(t)] : n \in 0..MaxSamples} \cup Thresholds(t)

AnalyzeCall ==
    /\ call = None
    /\ \E telemetry \in TelemetrySeqs(now), random \in RandomBytes :
           Verify(Request("s1", "u1", "c1", telemetry, OpenTimestamp),
                  getCampaignById("c1")[1], random)
    /\ UNCHANGED <<now, handlers>>

SpecAnalyze == Init /\ [][AnalyzeCall]_vars

(***************************************************************************)
(* The business-hours check on its own: a call of verifyRedemption for a   *)
(* campaign with no, empty or some business hours, at a client time around *)
(* the opening and closing minutes, on an empty guard or after one         *)
(* success.                                                                *)
(***************************************************************************)
\* 08:00 - 22:00 on Fridays.
FridayHours == [dayOfWeek |-> 5, openTime |-> <<48, 56, 58, 48, 48>>,
                closeTime |-> <<50, 50, 58, 48, 48>>]

\* 01:00 - 03:00 on Fridays.
NightHours == [dayOfWeek |-> 5, openTime |-> <<48, 49, 58, 48, 48>>,
               closeTime |-> <<48, 51, 58, 48, 48>>]

\* c1: no businessHours; c4: an empty list; c5: Thursdays, in the zone of the server;
\* c2: Thursdays, in Nairobi; c6: Thursdays and Fridays, no timezone; c10: the small
\* hours of Friday, in Nairobi.
HoursCampaigns ==
    {Campaign("c1", TRUE, None, None),
     Campaign("c4", TRUE, Some(<<>>), Some("UTC")),
     Campaign("c5", TRUE, Some(<<ThursdayHours>>), Some("UTC")),
     Campaign("c2", TRUE, Some(<<ThursdayHours>>), Some("Africa/Nairobi")),
     Campaign("c6", TRUE, Some(<<ThursdayHours, FridayHours>>), None),
     Campaign("c10", TRUE, Some(<<NightHours>>), Some("Africa/Nairobi"))}

HoursCampaign(id) == CHOOSE c \in HoursCampaigns : c.id = id

\* Times of day (UTC) around 08:00 and 22:00 in UTC and in Nairobi, and midnight.
TimeOfDay(h, m) == (h * 60 + m) * 60000
TimesOfDay ==
    {TimeOfDay(0, 0), TimeOfDay(4, 59), TimeOfDay(5, 0), TimeOfDay(5, 1),
     TimeOfDay(7, 59), TimeOfDay(8, 0), TimeOfDay(8, 1),
     TimeOfDay(18, 59), TimeOfDay(19, 0), TimeOfDay(19, 1),
     TimeOfDay(21, 59), TimeOfDay(22, 0), TimeOfDay(22, 1), TimeOfDay(23, 59)}

\* Thursday 1, Friday 2 and Saturday 3 January 1970; 22:00:59.999 on the Thursday.
ClientTimestamps ==
    {d * MS_PER_DAY + tod : d \in 0..2, tod \in TimesOfDay}
    \cup {TimeOfDay(22, 0) + 59999}

HoursRequests(t) ==
    {Request(s, "u1", c.id, InsideFor60s(t), ts) :
        s \in SessionIds, c \in HoursCampaigns, ts \in ClientTimestamps}

\* The guard is empty, or holds the one success of the first call.
HoursCall ==
    /\ IF call = None THEN TRUE
       ELSE call[1].result.success /\ DOMAIN usedSessionIds = {"s1"}
    /\ \E request \in HoursRequests(now), random \in RandomBytes :
           Verify(request, HoursCampaign(request.campaignId), random)
    /\ UNCHANGED <<now, handlers>>

SpecHours == Init /\ [][HoursCall]_vars

(***************************************************************************)
(* generateTOTP and verifyTOTP on their own: a code is generated for a     *)
(* timestamp and verified at a reading of the clock.                       *)
(***************************************************************************)
\* Readings of the clock around the start of a 30 s window (StartTime is one).
TotpClocks ==
    {StartTime, StartTime + 1, StartTime + 29999, StartTime + TOTP_WINDOW,
     StartTime + TOTP_WINDOW + 15000}

\* The timestamps a code is generated for: the epoch, and up to 60 s around the clock.
TotpOffsets ==
    {0 - 2 * TOTP_WINDOW, 0 - TOTP_WINDOW - 1, 0 - TOTP_WINDOW, 1 - TOTP_WINDOW, -1, 0, 1,
     TOTP_WINDOW - 1, TOTP_WINDOW, TOTP_WINDOW + 1, 2 * TOTP_WINDOW}
TotpTimestamps(clock) == {0, 1} \cup {clock + d : d \in TotpOffsets}

TotpSecrets == {"r1-u1-c1", "r2-u1-c1"}

TotpCall ==
    /\ call = None
    /\ \E secret \in TotpSecrets, clock \in TotpClocks :
         \E timestamp \in TotpTimestamps(clock) :
           /\ now' = clock
           /\ call' = Some([secret |-> secret, timestamp |-> timestamp, clock |-> clock,
                            code |-> generateTOTP(secret, Some(timestamp), clock),
                            verified |-> verifyTOTP(generateTOTP(secret, Some(timestamp), clock),
                                                    secret, 1, clock)])
    /\ UNCHANGED <<lastCleanup, usedSessionIds, recentRedemptions, history, handlers>>

SpecTotp == Init /\ [][TotpCall]_vars

(***************************************************************************)
(* The redemption token on its own: generateSecureQRPayload issues a       *)
(* token, the clock advances, and verifyQRPayload is given the token, a    *)
(* modified token or something that is no token.                           *)
(***************************************************************************)
\* Readings of the clock around the ends of three 30 s windows.
TokenInstants ==
    {StartTime + d : d \in {0, 1, 15000, 29999, 30000, 30001, 59999, 60000, 60001, 75000}}

\* A second Date.now() in the same call: the same millisecond or the next.
LaterRead(t) == {u \in TokenInstants : t <= u /\ u <= t + 1}

\* What verifyQRPayload may be given in place of the payload issued.
Presented(encodedPayload) ==
    LET token == encodedPayload.base64.json
    IN  {encodedPayload,
         toBase64(stringify([token EXCEPT !.code.counter = @ + 5])),
         toBase64(stringify([token EXCEPT !.uid = "u9"])),
         toBase64(stringify([token EXCEPT !.exp = @ + 2 * TOTP_WINDOW])),
         toBase64(stringify([rid |-> token.rid, uid |-> token.uid, cid |-> token.cid,
                             code |-> token.code])),
         toBase64(stringify([rid |-> token.rid, exp |-> token.exp])),
         toBase64(stringify([number |-> 5])),
         toBase64(stringify([null |-> TRUE])),
         toBase64([text |-> "{oops"]),
         [text |-> "%%%"]}

TokenTick ==
    /\ \E t \in TokenInstants : t > now /\ now' = t
    /\ UNCHANGED <<lastCleanup, usedSessionIds, recentRedemptions, call, history, handlers>>

IssueToken ==
    /\ call = None
    /\ \E userId \in UserIds, clock2 \in LaterRead(now) :
           /\ now' = clock2
           /\ call' = Some([redemptionId |-> "r1", userId |-> userId, campaignId |-> "c1",
                            issuedAt |-> now, returnedAt |-> clock2,
                            qr |-> generateSecureQRPayload("r1", userId, "c1", now, clock2),
                            presented |-> None])
    /\ UNCHANGED <<lastCleanup, usedSessionIds, recentRedemptions, history, handlers>>

PresentToken ==
    /\ call # None
    /\ \E input \in Presented(call[1].qr.payload), clock2 \in LaterRead(now) :
           /\ now' = clock2
           /\ call' = Some([call[1] EXCEPT !.presented =
                               Some([input |-> input, time |-> now, checkedAt |-> clock2,
                                     result |-> verifyQRPayload(input, now, clock2)])])
    /\ UNCHANGED <<lastCleanup, usedSessionIds, recentRedemptions, history, handlers>>

TokenNext == TokenTick \/ IssueToken \/ PresentToken

SpecToken == Init /\ [][TokenNext]_vars

(***************************************************************************)
(* Geohash.  A coordinate is an integer number of units of 180 / 2^23      *)
(* degree: the latitudes are -2^22 .. 2^22, the longitudes -2^23 .. 2^23.  *)
(* The 23 bisections of the longitude and the 22 of the latitude that a    *)
(* hash of 9 characters makes, and the centre of its cell, are whole       *)
(* numbers of units, as they are exact in the doubles of the code.  A hash *)
(* is the sequence of its characters.                                      *)
(***************************************************************************)
BASE32 ==
    <<"0", "1", "2", "3", "4", "5", "6", "7", "8", "9", "b", "c", "d", "e", "f", "g",
      "h", "j", "k", "m", "n", "p", "q", "r", "s", "t", "u", "v", "w", "x", "y", "z">>

MinLat == 0 - 2^22
MaxLat == 2^22
MinLng == 0 - 2^23
MaxLng == 2^23

\* The bits of the while loop of encodeGeohash, n of them, from the box it has got to.
RECURSIVE encodeBits(_, _, _, _, _, _, _, _)
encodeBits(lat, lng, n, minLat, maxLat, minLng, maxLng, isLng) ==
    IF n = 0 THEN <<>>
    ELSE IF isLng
    THEN LET mid == (minLng + maxLng) \div 2
         IN  IF lng >= mid
             THEN <<1>> \o encodeBits(lat, lng, n - 1, minLat, maxLat, mid, maxLng, FALSE)
             ELSE <<0>> \o encodeBits(lat, lng, n - 1, minLat, maxLat, minLng, mid, FALSE)
    ELSE LET mid == (minLat + maxLat) \div 2
         IN  IF lat >= mid
             THEN <<1>> \o encodeBits(lat, lng, n - 1, mid, maxLat, minLng, maxLng, TRUE)
             ELSE <<0>> \o encodeBits(lat, lng, n - 1, minLat, mid, minLng, maxLng, TRUE)

\* hash += BASE32[ch] for every 5 bits, ch |= 1 << (4 - bit).
charsOf(bits) ==
    [i \in 1..(Len(bits) \div 5) |->
        BASE32[1 + 16 * bits[5 * i - 4] + 8 * bits[5 * i - 3] + 4 * bits[5 * i - 2]
                 + 2 * bits[5 * i - 1] + bits[5 * i]]]

\* encodeGeohash bisecting the latitude first.
encodeGeohash_LatitudeFirst(lat, lng, precision) ==
    charsOf(encodeBits(lat, lng, 5 * precision, MinLat, MaxLat, MinLng, MaxLng, FALSE))

encodeGeohash(lat, lng, precision) ==
    charsOf(encodeBits(lat, lng, 5 * precision, MinLat, MaxLat, MinLng, MaxLng, TRUE))

\* BASE32.indexOf(char), and (idx >> bit) & 1 for bit = 4 .. 0.
indexOf(char) == (CHOOSE i \in 1..32 : BASE32[i] = char) - 1
bitsOf(idx) ==
    <<(idx \div 16) % 2, (idx \div 8) % 2, (idx \div 4) % 2, (idx \div 2) % 2, idx % 2>>

RECURSIVE hashBits(_)
hashBits(hash) ==
    IF hash = <<>> THEN <<>> ELSE bitsOf(indexOf(hash[1])) \o hashBits(Tail(hash))

\* The loops of decodeGeohash: the box left by the bits.
RECURSIVE decodeBits(_, _, _, _, _, _)
decodeBits(bits, minLat, maxLat, minLng, maxLng, isLng) ==
    IF bits = <<>>
    THEN [minLat |-> minLat, maxLat |-> maxLat, minLng |-> minLng, maxLng |-> maxLng]
    ELSE IF isLng
    THEN LET mid == (minLng + maxLng) \div 2
         IN  IF bits[1] = 1
             THEN decodeBits(Tail(bits), minLat, maxLat, mid, maxLng, FALSE)
             ELSE decodeBits(Tail(bits), minLat, maxLat, minLng, mid, FALSE)
    ELSE LET mid == (minLat + maxLat) \div 2
         IN  IF bits[1] = 1
             THEN decodeBits(Tail(bits), mid, maxLat, minLng, maxLng, TRUE)
             ELSE decodeBits(Tail(bits), minLat, mid, minLng, maxLng, TRUE)

decodeGeohash(hash) ==
    LET box == decodeBits(hashBits(hash), MinLat, MaxLat, MinLng, MaxLng, TRUE)
    IN  [lat |-> (box.minLat + box.maxLat) \div 2,
         lng |-> (box.minLng + box.maxLng) \div 2,
         latError |-> (box.maxLat - box.minLat) \div 2,
         lngError |-> (box.maxLng - box.minLng) \div 2]

\* The (dLat, dLng) of the two loops of getNeighbors, in their order.
NeighborDeltas ==
    <<<<-2, -2>>, <<-2, 0>>, <<-2, 2>>, <<0, -2>>, <<0, 2>>, <<2, -2>>, <<2, 0>>, <<2, 2>>>>

\* The loops of getNeighbors pushing the hash itself when an offset falls on it.
RECURSIVE pushNeighbors_KeepsItself(_, _, _, _)
pushNeighbors_KeepsItself(hash, cell, i, neighbors) ==
    IF i > Len(NeighborDeltas) THEN neighbors
    ELSE LET neighborHash == encodeGeohash(cell.lat + NeighborDeltas[i][1] * cell.latError,
                                           cell.lng + NeighborDeltas[i][2] * cell.lngError,
                                           Len(hash))
         IN  pushNeighbors_KeepsItself(hash, cell, i + 1,
                IF \A j \in 1..Len(neighbors) : neighbors[j] # neighborHash
                THEN Append(neighbors, neighborHash)
                ELSE neighbors)

\* The neighbors pushed from the i-th delta on, given those pushed so far.
RECURSIVE pushNeighbors(_, _, _, _)
pushNeighbors(hash, cell, i, neighbors) ==
    IF i > Len(NeighborDeltas) THEN neighbors
    ELSE LET neighborHash == encodeGeohash(cell.lat + NeighborDeltas[i][1] * cell.latError,
                                           cell.lng + NeighborDeltas[i][2] * cell.lngError,
                                           Len(hash))
         IN  pushNeighbors(hash, cell, i + 1,
                IF (\A j \in 1..Len(neighbors) : neighbors[j] # neighborHash)
                   /\ neighborHash # hash
                THEN Append(neighbors, neighborHash)
                ELSE neighbors)

getNeighbors(hash) == pushNeighbors(hash, decodeGeohash(hash), 1, <<>>)

\* getGeohashesForRadius with the bands closed below: 5000 m gets precision 4.
getGeohashesForRadius_BandsClosedBelow(lat, lng, radiusMeters) ==
    LET precision == IF radiusMeters >= 5000 THEN 4
                     ELSE IF radiusMeters >= 1000 THEN 5
                     ELSE IF radiusMeters >= 200 THEN 6
                     ELSE 7
        centerHash == encodeGeohash(lat, lng, precision)
    IN  <<centerHash>> \o getNeighbors(centerHash)

getGeohashesForRadius(lat, lng, radiusMeters) ==
    LET precision == IF radiusMeters > 5000 THEN 4
                     ELSE IF radiusMeters > 1000 THEN 5
                     ELSE IF radiusMeters > 200 THEN 6
                     ELSE 7
        centerHash == encodeGeohash(lat, lng, precision)
    IN  <<centerHash>> \o getNeighbors(centerHash)

\* The poles, the equator, 45 N, the cells next to them, Nairobi (1.286 S, 36.817 E)
\* and two more points; the antimeridian, Greenwich, 90 E and the cells next to them.
Latitudes ==
    {MinLat, MinLat + 1, -59932, -1, 0, 1, 2^21 - 1, 2^21, 1234567, MaxLat - 1, MaxLat}
Longitudes ==
    {MinLng, MinLng + 1, -3456789, -1, 0, 1, 1715800, 2^22 - 1, 2^22, MaxLng - 1, MaxLng}
Precisions == 1..9
Radii == {0, 50, 199, 200, 201, 1000, 1001, 5000, 5001, 10000}

RoundTrip ==
    /\ call = None
    /\ \E lat \in Latitudes, lng \in Longitudes, precision \in Precisions :
           call' = Some([op |-> "decodeGeohash", lat |-> lat, lng |-> lng,
                         precision |-> precision,
                         hash |-> encodeGeohash(lat, lng, precision),
                         cell |-> decodeGeohash(encodeGeohash(lat, lng, precision))])
    /\ UNCHANGED <<now, lastCleanup, usedSessionIds, recentRedemptions, history, handlers>>

ForRadius ==
    /\ call = None
    /\ \E lat \in Latitudes, lng \in Longitudes, radiusMeters \in Radii :
           call' = Some([op |-> "getGeohashesForRadius", lat |-> lat, lng |-> lng,
                         radiusMeters |-> radiusMeters,
                         hashes |-> getGeohashesForRadius(lat, lng, radiusMeters)])
    /\ UNCHANGED <<now, lastCleanup, usedSessionIds, recentRedemptions, history, handlers>>

\* getNeighbors of the cell of each coordinate at each precision.
Neighbors ==
    /\ call = None
    /\ \E lat \in Latitudes, lng \in Longitudes, precision \in Precisions :
           call' = Some([op |-> "getNeighbors",
                         hash |-> encodeGeohash(lat, lng, precision),
                         neighbors |-> getNeighbors(encodeGeohash(lat, lng, precision))])
    /\ UNCHANGED <<now, lastCleanup, usedSessionIds, recentRedemptions, history, handlers>>

GeohashNext == RoundTrip \/ ForRadius \/ Neighbors

SpecGeohash == Init /\ [][GeohashNext]_vars

(***************************************************************************)
(* analyzeTelemetry on malformed telemetry: one call for a campaign 11 m   *)
(* from the north pole, with up to MaxSamples samples whose latitude is    *)
(* that of the campaign or 90.001 degrees, whose accuracy is 10 m or       *)
(* -50 m, and whose timestamp is now, the epoch, before the epoch or 100 s *)
(* ahead of the server; or with four samples of which some lack altitude.  *)
(***************************************************************************)
PolarCampaign ==
    [Campaign("c7", TRUE, None, None) EXCEPT !.coordinates = [lat |-> 8999990, lng |-> CampaignLng]]

MalformedSpace(t) ==
    {Sample(latitude, accuracy, None, timestamp) :
        latitude \in {PolarCampaign.coordinates.lat, 9000100},
        accuracy \in {10, -50},
        timestamp \in {t, 0, -5, t + 100000}}

MalformedAltitudes(t) ==
    {<<Sample(9000100, -50, a1, t), Sample(9000100, 0, a2, t - 70000),
       Sample(8999990, -50, Some(-400), t), Sample(8999990, 10, Some(9000), -5),
       Sample(9000100, 10, Some(0), t)>> :
        a1 \in {None, Some(-11000)}, a2 \in {None, Some(0)}}

MalformedSeqs(t) ==
    UNION {[1..n -> MalformedSpace(t)] : n \in 0..MaxSamples} \cup MalformedAltitudes(t)

MalformedCall ==
    /\ call = None
    /\ \E telemetry \in MalformedSeqs(now) :
           call' = Some([telemetry |-> telemetry, time |-> now,
                         returned |-> analyzeTelemetry(telemetry, PolarCampaign, now)])
    /\ UNCHANGED <<now, lastCleanup, usedSessionIds, recentRedemptions, history, handlers>>

SpecMalformed == Init /\ [][MalformedCall]_vars

(***************************************************************************)
(* POST /api/verify.  A handler runs from one await to the next without    *)
(* interruption: pc names the await it is suspended at,                    *)
(*   "json"   await request.json()                                         *)
(*   "lookup" await getCampaignById(body.campaignId)                       *)
(*   "result" await verifyRedemption(body, campaign)                       *)
(* verifyRedemption is an async function with no await in it: its body has *)
(* run to its return when the call returns the promise.                    *)
(***************************************************************************)
ErrorJson(error) ==
    [success |-> FALSE, error |-> Some(error), riskScore |-> 0, fraudFlags |-> None,
     redemptionId |-> None, totpCode |-> None, expiresAt |-> None]

Response(status, json) == [status |-> status, json |-> json]

guardVars == <<lastCleanup, usedSessionIds, recentRedemptions, call, history>>

\* NextResponse.json(...) returned: the handler is done.
Respond(h, response) ==
    handlers' = [handlers EXCEPT ![h].pc = "done", ![h].response = Some(response),
                                 ![h].respondedAt = Some(now)]

\* A request arrives: the handler starts and suspends at await request.json().
Receive(h) ==
    /\ handlers[h].pc = "idle"
    /\ \E body \in Bodies(now) :
           handlers' = [handlers EXCEPT ![h].pc = "json", ![h].body = Some(body),
                                        ![h].receivedAt = Some(now)]
    /\ UNCHANGED <<now, guardVars>>

\* A body that is no JSON text (request.json() rejects), and the JSON text null (the
\* read of body.sessionId throws): both end in the catch of the handler.
NotJsonBody == [text |-> "sessionId=s1"]
NullBody == [null |-> TRUE]

\* request.json() resolves: the required fields are validated, getCampaignById is called.
Validate(h) ==
    /\ handlers[h].pc = "json"
    /\ LET body == handlers[h].body[1]
       IN  IF DOMAIN body \in {DOMAIN NotJsonBody, DOMAIN NullBody}
           THEN Respond(h, Response(500, ErrorJson("Internal server error")))
           ELSE IF body.sessionId = "" \/ body.userId = "" \/ body.campaignId = ""
                   \/ body.telemetry = None
           THEN Respond(h, Response(400, ErrorJson("Missing required fields")))
           ELSE handlers' = [handlers EXCEPT ![h].pc = "lookup"]
    /\ UNCHANGED <<now, guardVars>>

\* The handler with an await between the checks of verifyRedemption and its recording
\* of the session: suspended at "recording", it lets the other handlers run.
Lookup_AwaitBeforeRecord(h) ==
    /\ \/ /\ handlers[h].pc = "lookup"
          /\ LET body == handlers[h].body[1]
                 campaign == getCampaignById(body.campaignId)
             IN  IF campaign = None
                 THEN Respond(h, Response(404, ErrorJson("Campaign not found")))
                 ELSE IF ~campaign[1].active
                 THEN Respond(h, Response(400, ErrorJson("Campaign is not active or has expired")))
                 ELSE \E random \in RandomBytes :
                        \E out \in {verifyRedemption([body EXCEPT !.telemetry = body.telemetry[1]],
                                                     campaign[1], random)} :
                          handlers' = [handlers EXCEPT ![h].pc = "recording",
                                                       ![h].response = Some(Response(200, out.result))]
          /\ UNCHANGED guardVars
       \/ /\ handlers[h].pc = "recording"
          /\ handlers' = [handlers EXCEPT ![h].pc = "result"]
          /\ IF handlers[h].response[1].json.success
             THEN /\ usedSessionIds' = MapSet(usedSessionIds, handlers[h].body[1].sessionId, now)
                  /\ recentRedemptions' =
                        MapSet(recentRedemptions,
                               handlers[h].body[1].userId \o "-" \o handlers[h].body[1].campaignId,
                               now)
             ELSE UNCHANGED <<usedSessionIds, recentRedemptions>>
          /\ UNCHANGED <<lastCleanup, call, history>>
    /\ UNCHANGED now

\* getCampaignById resolves: the campaign is checked and verifyRedemption is called.
Lookup(h) ==
    /\ handlers[h].pc = "lookup"
    /\ LET body == handlers[h].body[1]
           campaign == getCampaignById(body.campaignId)
       IN  IF campaign = None
           THEN /\ Respond(h, Response(404, ErrorJson("Campaign not found")))
                /\ UNCHANGED guardVars
           ELSE IF ~campaign[1].active \/ campaign[1].expiryDate < now
           THEN /\ Respond(h, Response(400, ErrorJson("Campaign is not active or has expired")))
                /\ UNCHANGED guardVars
           ELSE /\ \E random \in RandomBytes :
                       Verify([body EXCEPT !.telemetry = body.telemetry[1]],
                              campaign[1], random)
                /\ handlers' = [handlers EXCEPT ![h].pc = "result",
                                                ![h].response = Some(Response(200, call'[1].result))]
    /\ UNCHANGED now

\* The promise of verifyRedemption resolves: NextResponse.json(result).
Return(h) ==
    /\ handlers[h].pc = "result"
    /\ handlers' = [handlers EXCEPT ![h].pc = "done", ![h].respondedAt = Some(now)]
    /\ UNCHANGED <<now, guardVars>>

InFlight(h) == handlers[h].pc \notin {"idle", "done"}

\* The clock advances; no request is in flight for longer than RequestDeadline.
RouteTick ==
    /\ \E t \in Instants :
           /\ t > now
           /\ \A h \in HandlerIds : InFlight(h) => t - handlers[h].receivedAt[1] <= RequestDeadline
           /\ now' = t
    /\ UNCHANGED <<guardVars, handlers>>

RouteNext ==
    \/ RouteTick
    \/ \E h \in HandlerIds : Receive(h)
    \/ \E h \in HandlerIds : Validate(h)
    \/ \E h \in HandlerIds : Lookup(h)
    \/ \E h \in HandlerIds : Return(h)

SpecRoute == Init /\ [][RouteNext]_vars

(***************************************************************************)
(* One POST /api/verify handler on its own, given any body: each of        *)
(* sessionId, userId and campaignId present or empty; a campaign that is   *)
(* active, switched off, expiring or unknown; telemetry missing, empty or  *)
(* good; the JSON text null; and something that is no JSON.                *)
(***************************************************************************)
AnyBodies(t) ==
    {Body(s, u, c, tel, t) :
        s \in {"", "s1"}, u \in {"", "u1"}, c \in {"", "c1", "c3", "c8", "c9"},
        tel \in {None, Some(<<>>), Some(InsideFor60s(t))}}
    \cup {NullBody, NotJsonBody}

ReceiveAny(h) ==
    /\ handlers[h].pc = "idle"
    /\ \E body \in AnyBodies(now) :
           handlers' = [handlers EXCEPT ![h].pc = "json", ![h].body = Some(body),
                                        ![h].receivedAt = Some(now)]
    /\ UNCHANGED <<now, guardVars>>

HandlerNext ==
    \/ RouteTick
    \/ ReceiveAny("h1")
    \/ Validate("h1")
    \/ Lookup("h1")
    \/ Return("h1")

SpecHandler == Init /\ [][HandlerNext]_vars

(***************************************************************************)
(* The rate limit for ids that contain the '-' of the key: calls of        *)
(* verifyRedemption, at one reading of the clock, for the users "a" and    *)
(* "a-b" and the campaigns "c" and "b-c", with good telemetry.             *)
(***************************************************************************)
DashedUserIds == {"a", "a-b"}
DashedCampaignIds == {"c", "b-c"}
DashedSessionIds == {"s1", "s2", "s3"}

DashedCall ==
    /\ \E s \in DashedSessionIds, u \in DashedUserIds, c \in DashedCampaignIds,
          random \in RandomBytes :
           Verify(Request(s, u, c, InsideFor60s(now), OpenTimestamp),
                  Campaign(c, TRUE, None, None), random)
    /\ UNCHANGED <<now, handlers>>

SpecDashed == Init /\ [][DashedCall]_vars

(***************************************************************************)
(* The properties.                                                         *)
(***************************************************************************)
Called == call # None
Last == call[1]
LastCampaign == getCampaignById(Last.request.campaignId)[1]
LastKey == Last.request.userId \o "-" \o Last.request.campaignId

Day == 24 * 60 * 60 * 1000
FiveMinutes == 5 * 60 * 1000

IsReplay(r) ==
    /\ ~r.success
    /\ r.riskScore = 100
    /\ r.fraudFlags # None
    /\ Len(r.fraudFlags[1]) = 1
    /\ r.fraudFlags[1][1].type = "REPLAY_ATTACK"
    /\ r.fraudFlags[1][1].severity = "CRITICAL"

IsRateLimited(r) == ~r.success /\ r.riskScore = 0 /\ r.fraudFlags = Some(<<>>)

IsOutsideHours(r) ==
    /\ ~r.success
    /\ r.riskScore = 50
    /\ r.fraudFlags # None
    /\ Len(r.fraudFlags[1]) = 1
    /\ r.fraudFlags[1][1].type = "BUSINESS_HOURS"

\* C1 as stated: once a call carrying a session id has succeeded, every later call
\* carrying it is rejected as a replay (riskScore 100, one CRITICAL REPLAY_ATTACK flag).
C1_ReplayForEver ==
    Called /\ Last.priorSession # None => IsReplay(Last.result)

\* C1 as amended: once a call carrying a session id has succeeded, every later call
\* carrying it and made no more than 24 hours after that success is rejected as a
\* replay, whatever telemetry, user and campaign it carries.
C1_ReplayWithinRetention ==
    Called /\ Last.priorSession # None /\ Last.time - Last.priorSession[1] <= Day
        => IsReplay(Last.result)

\* A call with good telemetry, for a pair that never redeemed, exactly 24 hours after
\* the success of its session id: a replay.
C1_Witness ==
    /\ Called
    /\ Last.priorSession # None
    /\ Last.time - Last.priorSession[1] = Day
    /\ Last.priorPair = None
    /\ Last.request.telemetry = InsideFor60s(Last.time)
    /\ IsReplay(Last.result)

\* C2: after a success for (userId, campaignId), a call for the same pair less than 24
\* hours later, with a session id that never succeeded, is rejected with riskScore 0
\* and no flag; from 24 hours on the call is not rejected by the rate limit.
C2_RateLimitWindow ==
    Called /\ Last.priorPair # None =>
        /\ (Last.time - Last.priorPair[1] < Day /\ Last.priorSession = None
               => IsRateLimited(Last.result))
        /\ (Last.time - Last.priorPair[1] >= Day => ~IsRateLimited(Last.result))

\* A call with good telemetry and a fresh session id, 24 hours less 1 ms after the
\* success of its pair: rate limited.
C2_Witness ==
    /\ Called
    /\ Last.priorPair # None
    /\ Last.time - Last.priorPair[1] = Day - 1
    /\ Last.priorSession = None
    /\ Last.request.telemetry = InsideFor60s(Last.time)
    /\ IsRateLimited(Last.result)

\* Two samples of the telemetry are in the zone of the campaign (radius + 20 m) and
\* at least 0.8 x dwellTimeRequired seconds apart.
DwellProved(telemetry, campaign) ==
    \E i, j \in 1..Len(telemetry) :
        /\ getDistance(telemetry[i].latitude, telemetry[i].longitude,
                       campaign.coordinates.lat, campaign.coordinates.lng)
              <= (campaign.radius + 20) * 1000
        /\ getDistance(telemetry[j].latitude, telemetry[j].longitude,
                       campaign.coordinates.lat, campaign.coordinates.lng)
              <= (campaign.radius + 20) * 1000
        /\ (telemetry[j].timestamp - telemetry[i].timestamp) * 10
              >= campaign.dwellTimeRequired * 8 * 1000

\* C3: verifyRedemption succeeds only if the telemetry holds samples inside the zone
\* whose first-to-last span reaches 0.8 x dwellTimeRequired; a request with no or one
\* sample, or with no dwell in the zone, is never accepted.
C3_SuccessProvesDwell ==
    Called /\ Last.result.success
        => DwellProved(Last.request.telemetry, LastCampaign)

HasResult(h) ==
    handlers[h].response # None /\ handlers[h].response[1].status = 200
Succeeded(h) == HasResult(h) /\ handlers[h].response[1].json.success
LifeEnd(h) ==
    IF handlers[h].respondedAt = None THEN now ELSE handlers[h].respondedAt[1]
\* Both requests were received, and neither was answered before the other arrived.
Concurrent(h1, h2) ==
    /\ handlers[h1].receivedAt # None
    /\ handlers[h2].receivedAt # None
    /\ handlers[h1].receivedAt[1] <= LifeEnd(h2)
    /\ handlers[h2].receivedAt[1] <= LifeEnd(h1)
SameSession(h1, h2) ==
    handlers[h1].body[1].sessionId = handlers[h2].body[1].sessionId

\* C4: of the concurrently executing verifyRedemption calls that carry one session id,
\* in every interleaving of their handlers, at most one returns success.
C4_OneSuccessPerSession ==
    \A h1, h2 \in HandlerIds :
        h1 # h2 /\ Concurrent(h1, h2) /\ SameSession(h1, h2) /\ Succeeded(h1)
            => ~Succeeded(h2)

\* A handler has succeeded and still awaits its result when a second one, with the
\* same session id, is rejected as a replay.
C4_Witness ==
    \E h1, h2 \in HandlerIds :
        /\ h1 # h2
        /\ Concurrent(h1, h2)
        /\ SameSession(h1, h2)
        /\ Succeeded(h1)
        /\ handlers[h1].pc = "result"
        /\ HasResult(h2)
        /\ IsReplay(handlers[h2].response[1].json)

\* C5: a request that passes the replay, rate-limit and business-hours checks succeeds
\* if and only if the riskScore of analyzeTelemetry is below 70; at 70 or more the
\* result carries that riskScore and those flags, and no redemptionId or token.
C5_Threshold ==
    Called /\ ~IsReplay(Last.result) /\ ~IsRateLimited(Last.result)
           /\ ~IsOutsideHours(Last.result) =>
        LET analysis == analyzeTelemetry(Last.request.telemetry, LastCampaign, Last.time)
        IN  /\ Last.result.success <=> analysis.riskScore < 70
            /\ analysis.riskScore >= 70 =>
                  /\ Last.result.riskScore = analysis.riskScore
                  /\ Last.result.fraudFlags = Some(analysis.flags)
                  /\ Last.result.redemptionId = None
                  /\ Last.result.totpCode = None
                  /\ Last.result.expiresAt = None

\* A request whose telemetry scores exactly 70 is rejected with its three flags.
C5_Witness ==
    /\ Called
    /\ ~Last.result.success
    /\ Last.result.riskScore = 70
    /\ Last.result.fraudFlags # None
    /\ Len(Last.result.fraudFlags[1]) = 3

\* Entry k of the map is there afterwards, with the same timestamp.
Kept(before, after, k) == MapHas(after, k) /\ after[k] = before[k]

\* C6: a call that returns success=false adds or updates no entry of usedSessionIds or
\* recentRedemptions; a call that returns success=true sets usedSessionIds[sessionId]
\* and recentRedemptions[userId-campaignId] to the current time.
C6_WrittenOnlyOnSuccess ==
    [][IF call' # call /\ call'[1].result.success
       THEN /\ call'[1].time = now'
            /\ MapHas(usedSessionIds', call'[1].request.sessionId)
            /\ usedSessionIds'[call'[1].request.sessionId] = now'
            /\ MapHas(recentRedemptions',
                      call'[1].request.userId \o "-" \o call'[1].request.campaignId)
            /\ recentRedemptions'[call'[1].request.userId \o "-" \o call'[1].request.campaignId]
                  = now'
       ELSE /\ \A k \in DOMAIN usedSessionIds' : Kept(usedSessionIds', usedSessionIds, k)
            /\ \A k \in DOMAIN recentRedemptions' : Kept(recentRedemptions', recentRedemptions, k)
      ]_vars

\* A request was rejected for fraud and its session id and pair are in neither map.
C6_Witness ==
    /\ Called
    /\ ~Last.result.success
    /\ Last.analysis # None
    /\ Last.result.riskScore >= 70
    /\ ~MapHas(usedSessionIds, Last.request.sessionId)
    /\ ~MapHas(recentRedemptions, LastKey)

\* The keys a call writes itself, after the sweep: those of its success.
Written(c) ==
    IF c.result.success
    THEN {c.request.sessionId, c.request.userId \o "-" \o c.request.campaignId}
    ELSE {}

\* C7: the sweep at the start of a verifyRedemption call changes nothing when less
\* than 5 minutes have passed since the last one; otherwise it sets lastCleanup to
\* now and removes from both maps exactly the entries older than 24 hours.
C7_Sweep ==
    [][call' # call =>
        LET t == call'[1].time
            written == Written(call'[1])
        IN  IF t - lastCleanup < FiveMinutes
            THEN /\ lastCleanup' = lastCleanup
                 /\ \A k \in (DOMAIN usedSessionIds) \ written :
                        Kept(usedSessionIds, usedSessionIds', k)
                 /\ \A k \in (DOMAIN recentRedemptions) \ written :
                        Kept(recentRedemptions, recentRedemptions', k)
            ELSE /\ lastCleanup' = t
                 /\ \A k \in (DOMAIN usedSessionIds) \ written :
                        IF t - usedSessionIds[k] > Day
                        THEN ~MapHas(usedSessionIds', k)
                        ELSE Kept(usedSessionIds, usedSessionIds', k)
                 /\ \A k \in (DOMAIN recentRedemptions) \ written :
                        IF t - recentRedemptions[k] > Day
                        THEN ~MapHas(recentRedemptions', k)
                        ELSE Kept(recentRedemptions, recentRedemptions', k)
      ]_vars

\* A call made 1 ms after a sweep has left in usedSessionIds an entry older than 24 h.
C7_Witness ==
    /\ Called
    /\ Last.time - lastCleanup = 1
    /\ \E k \in DOMAIN usedSessionIds : Last.time - usedSessionIds[k] > Day

\* C8: the checks run in the order sweep, replay, rate limit, business hours, fraud
\* analysis, and the first that fails decides: a consumed session id inside the rate
\* limit window is a replay, and analyzeTelemetry runs for no guard or business-hours
\* rejection.
C8_CheckOrder ==
    [][call' # call =>
        LET c == call'[1]
            t == c.time
            key == c.request.userId \o "-" \o c.request.campaignId
            swept(m, k) == ~(t - lastCleanup < FiveMinutes) /\ t - m[k] > Day
            replayed == MapHas(usedSessionIds, c.request.sessionId)
                        /\ ~swept(usedSessionIds, c.request.sessionId)
            limited == MapHas(recentRedemptions, key)
                       /\ ~swept(recentRedemptions, key)
                       /\ t - recentRedemptions[key] < Day
            closed == ~hoursCheck(c.request, getCampaignById(c.request.campaignId)[1]).valid
        IN  IF replayed THEN IsReplay(c.result) /\ c.analysis = None
            ELSE IF limited THEN IsRateLimited(c.result) /\ c.analysis = None
            ELSE IF closed THEN IsOutsideHours(c.result) /\ c.analysis = None
            ELSE c.analysis # None /\ c.result.riskScore = c.analysis[1].riskScore
      ]_vars

\* A replay reported for a pair that is inside its rate-limit window.
C8_Witness ==
    /\ Called
    /\ IsReplay(Last.result)
    /\ MapHas(recentRedemptions, LastKey)
    /\ Last.time - recentRedemptions[LastKey] < Day

\* C9: every riskScore that analyzeTelemetry returns and every riskScore of a
\* VerificationResult is an integer from 0 to 100.
C9_RiskScoreRange ==
    Called =>
        /\ Last.result.riskScore \in 0..100
        /\ Last.analysis # None => Last.analysis[1].riskScore \in 0..100

\* An analysis whose increments add up to 135 (a CRITICAL flag and the dwell flag).
C9_Witness ==
    /\ Called
    /\ Last.analysis # None
    /\ Len(Last.analysis[1].flags) = 2
    /\ Last.analysis[1].flags[1].severity = "CRITICAL"
    /\ Last.analysis[1].flags[2].type = "GPS_SPOOF"
    /\ Last.result.riskScore = 100

\* C10: for fewer than 2 samples analyzeTelemetry returns riskScore 40 and one flag,
\* the GPS_SPOOF flag of insufficient data: no other check has run.
C10_InsufficientData ==
    Called /\ Len(Last.request.telemetry) < 2 =>
        /\ Last.analysis # None
        /\ Last.analysis[1].riskScore = 40
        /\ Len(Last.analysis[1].flags) = 1
        /\ Last.analysis[1].flags[1].type = "GPS_SPOOF"
        /\ Last.analysis[1].flags[1].message
              = "Insufficient telemetry data - possible single-point spoof"

\* One sample, 200 m from the centre and 3 min 20 s old: scored 40.
C10_Witness ==
    /\ Called
    /\ Len(Last.request.telemetry) = 1
    /\ Last.request.telemetry[1].latitude = CampaignLat + 180
    /\ Last.request.telemetry[1].timestamp = Last.time - 200000
    /\ Last.analysis # None
    /\ Last.analysis[1].riskScore = 40

C14_TotpWindows ==
    Called =>
        /\ \A clock \in TotpClocks : \A timestamp \in TotpTimestamps(clock) :
              timestamp \div 30000 = Last.timestamp \div 30000
                  => generateTOTP(Last.secret, Some(timestamp), clock) = Last.code
        /\ Last.clock - Last.timestamp \in (0 - 30000)..30000 => Last.verified

\* C12: the payload of generateSecureQRPayload, given unmodified to verifyQRPayload at
\* any time up to and including the expiresAt returned with it, is valid and yields
\* the redemptionId, userId and campaignId it was issued for; expiresAt is the exp of
\* the payload and 30000 ms after the time of issue.
C12_TokenRoundTrip ==
    Called =>
        /\ Last.qr.expiresAt = Last.qr.payload.base64.json.exp
        /\ Last.qr.expiresAt - 30000 \in Last.issuedAt..Last.returnedAt
        /\ Last.presented # None
             /\ Last.presented[1].input = Last.qr.payload
             /\ Last.presented[1].time <= Last.qr.expiresAt
           => /\ Last.presented[1].result.valid
              /\ Last.presented[1].result.data
                    = Some([redemptionId |-> Some(Last.redemptionId),
                            userId |-> Some(Last.userId),
                            campaignId |-> Some(Last.campaignId)])

\* What verifyQRPayload was given, as a JSON value if it is the base64 of one.
LastInput == Last.presented[1].input
IsJson(input) == DOMAIN input = {"base64"} /\ DOMAIN input.base64 = {"json"}
JsonOf(input) == input.base64.json
HasFiveFields(input) ==
    IsJson(input) /\ DOMAIN JsonOf(input) = {"rid", "uid", "cid", "code", "exp"}

\* The outcome of verifyQRPayload when `malformed` is what makes a payload invalid:
\* 'Invalid QR payload' if malformed, else 'QR code expired' if now > exp, else
\* 'Invalid verification code' if the code is that of none of the three windows
\* around now for the secret of the payload, else valid with the ids of the payload.
Classified(presented, malformed) ==
    LET value == JsonOf(presented.input)
        secret == tokenSecret(interpolate(read(value, "rid")),
                              interpolate(read(value, "uid")),
                              interpolate(read(value, "cid")))
        expired == "exp" \in DOMAIN value /\ presented.time > value.exp
        matches == /\ "code" \in DOMAIN value
                   /\ \E k \in {-1, 0, 1} :
                          value.code = [secret |-> secret,
                                        counter |-> (presented.checkedAt \div 30000) + k]
        invalid(error) == [valid |-> FALSE, data |-> None, error |-> Some(error)]
    IN  IF malformed THEN presented.result = invalid("Invalid QR payload")
        ELSE IF expired THEN presented.result = invalid("QR code expired")
        ELSE IF ~matches THEN presented.result = invalid("Invalid verification code")
        ELSE presented.result = [valid |-> TRUE,
                                 data |-> Some([redemptionId |-> read(value, "rid"),
                                                userId |-> read(value, "uid"),
                                                campaignId |-> read(value, "cid")]),
                                 error |-> None]

C15_GeohashRoundTrip ==
    Called /\ Last.op = "decodeGeohash" =>
        /\ Len(Last.hash) = Last.precision
        /\ Abs(Last.lat - Last.cell.lat) <= Last.cell.latError
        /\ Abs(Last.lng - Last.cell.lng) <= Last.cell.lngError

\* 90 N, 180 E at precision 9: the coordinate is on the edge of its cell, whose
\* centre is 1 unit away in both directions.
C15_Witness ==
    /\ Called
    /\ Last.op = "decodeGeohash"
    /\ Last.precision = 9
    /\ Last.lat = MaxLat
    /\ Last.lng = MaxLng
    /\ Last.cell = [lat |-> MaxLat - 1, lng |-> MaxLng - 1, latError |-> 1, lngError |-> 1]

\* C16: getGeohashesForRadius takes precision 4 for r > 5000, 5 for 1000 < r <= 5000,
\* 6 for 200 < r <= 1000 and 7 for r <= 200; every hash returned has that length, the
\* first is encodeGeohash(lat, lng, precision), and no hash is returned twice.
C16_RadiusBands ==
    Called /\ Last.op = "getGeohashesForRadius" =>
        LET r == Last.radiusMeters
            precision == CASE r > 5000 -> 4
                           [] 1000 < r /\ r <= 5000 -> 5
                           [] 200 < r /\ r <= 1000 -> 6
                           [] r <= 200 -> 7
        IN  /\ \A i \in 1..Len(Last.hashes) : Len(Last.hashes[i]) = precision
            /\ Last.hashes[1] = encodeGeohash(Last.lat, Last.lng, precision)
            /\ \A i, j \in 1..Len(Last.hashes) : i # j => Last.hashes[i] # Last.hashes[j]

\* At the north pole with r = 5000: precision 5, and the three cells beyond the
\* pole fall on the row of the centre, so 6 hashes are returned and not 9.
C16_Witness ==
    /\ Called
    /\ Last.op = "getGeohashesForRadius"
    /\ Last.radiusMeters = 5000
    /\ Last.lat = MaxLat
    /\ Len(Last.hashes) = 6
    /\ Len(Last.hashes[1]) = 5

(***************************************************************************)
(* analyzeTelemetry on two or more samples.                                *)
(***************************************************************************)
Analysed == Called /\ Len(Last.request.telemetry) >= 2 /\ Last.analysis # None
Flags == Last.analysis[1].flags
Sorted == SortByTimestamp(Last.request.telemetry)
NoFlags == [flags |-> <<>>, riskScore |-> 0]

Increment(flag) ==
    CASE flag.type = "IMPOSSIBLE_SPEED" /\ flag.severity = "CRITICAL" -> 100
      [] flag.type = "IMPOSSIBLE_SPEED" /\ flag.severity = "HIGH" -> 30
      [] flag.type = "ACCURACY_ANOMALY" -> 20
      [] flag.type = "GPS_SPOOF" /\ flag.severity = "CRITICAL" -> 100
      [] flag.type = "TIMESTAMP_DRIFT" -> 25
      [] flag.type = "ALTITUDE_MISMATCH" -> 15
      [] flag.type = "GPS_SPOOF" /\ flag.severity = "HIGH" -> 35

\* C17: for 2 or more samples the riskScore is min(100, sum of the increments of the
\* emitted flags); the flags are those each of the six checks raises on its own, in
\* the order of the checks, whatever the earlier checks found; and the riskScore is 0
\* exactly when there is no flag.
C17_AdditiveScore ==
    Analysed =>
        /\ Last.analysis[1].riskScore
              = Min(100, SumSeq([i \in 1..Len(Flags) |-> Increment(Flags[i])]))
        /\ Flags = speedCheck(Sorted, 2, NoFlags).flags
                     \o accuracyCheck(Sorted, NoFlags).flags
                     \o staticCheck(Sorted, NoFlags).flags
                     \o driftCheck(Sorted, Last.time, NoFlags).flags
                     \o altitudeCheck(Sorted, NoFlags).flags
                     \o dwellCheck(Sorted, LastCampaign, NoFlags).flags
        /\ Last.analysis[1].riskScore = 0 <=> Flags = <<>>

\* Six stale samples at one place outside the zone: the static flag alone is worth
\* 100, and the drift and dwell checks still add their flags; 160 is returned as 100.
C17_Witness ==
    /\ Analysed
    /\ Len(Flags) = 3
    /\ Flags[1].type = "GPS_SPOOF" /\ Flags[1].severity = "CRITICAL"
    /\ Flags[2].type = "TIMESTAMP_DRIFT"
    /\ Flags[3].type = "GPS_SPOOF" /\ Flags[3].severity = "HIGH"
    /\ Last.analysis[1].riskScore = 100

\* The consecutive pairs of the sorted samples: pair i is (Sorted[i-1], Sorted[i]),
\* with its time delta in ms and its distance in mm, so that mm / ms is m/s.
Pairs == 2..Len(Sorted)
Delta(i) == Sorted[i].timestamp - Sorted[i - 1].timestamp
Distance(i) == getDistance(Sorted[i - 1].latitude, Sorted[i - 1].longitude,
                           Sorted[i].latitude, Sorted[i].longitude)
Critical(i) == Delta(i) > 0 /\ Distance(i) > 100 * Delta(i)
High(i) == Delta(i) > 0 /\ ~Critical(i) /\ Distance(i) > 35 * Delta(i) /\ Distance(i) > 100 * 1000
Flagged == {i \in Pairs : Critical(i) \/ High(i)}
NthFlagged(k) == CHOOSE i \in Flagged : Cardinality({j \in Flagged : j < i}) = k - 1
SpeedFlags == SelectSeq(Flags, LAMBDA f : f.type = "IMPOSSIBLE_SPEED")

\* C18: the IMPOSSIBLE_SPEED flags are, in the order of the sorted pairs, one flag for
\* each pair with a positive time delta that is faster than 100 m/s (CRITICAL, +100)
\* or else faster than 35 m/s over more than 100 m (HIGH, +30); a pair whose time
\* delta is not positive has no flag; every flagged pair adds its own increment.
C18_SpeedFlags ==
    Analysed =>
        /\ Len(SpeedFlags) = Cardinality(Flagged)
        /\ \A k \in 1..Len(SpeedFlags) :
               SpeedFlags[k].severity = IF Critical(NthFlagged(k)) THEN "CRITICAL" ELSE "HIGH"
        /\ \A i \in Pairs : Delta(i) <= 0 => i \notin Flagged
        /\ Last.analysis[1].riskScore
              >= Min(100, 100 * Cardinality({i \in Pairs : Critical(i)})
                            + 30 * Cardinality({i \in Pairs : High(i)}))

\* 200 m in 4 s and then 200 m back in 1 s: a HIGH flag and then a CRITICAL one.
C18_Witness ==
    /\ Analysed
    /\ Len(Sorted) = 3
    /\ High(2) /\ Critical(3)
    /\ Len(SpeedFlags) = 2
    /\ SpeedFlags[1].severity = "HIGH" /\ SpeedFlags[2].severity = "CRITICAL"

\* The samples of the request within radius + 20 m of the centre (distances in mm),
\* and the time in ms from the earliest to the latest of them.
Near == {i \in 1..Len(Last.request.telemetry) :
            getDistance(Last.request.telemetry[i].latitude, Last.request.telemetry[i].longitude,
                        LastCampaign.coordinates.lat, LastCampaign.coordinates.lng)
                <= (LastCampaign.radius + 20) * 1000}
NearTimes == {Last.request.telemetry[i].timestamp : i \in Near}
Dwell ==
    IF Cardinality(Near) <= 1 THEN 0
    ELSE (CHOOSE a \in NearTimes : \A b \in NearTimes : b <= a)
           - (CHOOSE a \in NearTimes : \A b \in NearTimes : a <= b)
DwellFlags == SelectSeq(Flags, LAMBDA f : f.type = "GPS_SPOOF" /\ f.severity = "HIGH")

\* C19: the dwell is the time from the earliest to the latest sample within
\* radius + 20 m of the centre (0 with at most one such sample), whatever lies between
\* them; the HIGH GPS_SPOOF dwell flag is raised, once and as the last flag, exactly
\* when the dwell in seconds is strictly less than 0.8 x dwellTimeRequired.
C19_DwellFlag ==
    Analysed =>
        IF Dwell * 10 < LastCampaign.dwellTimeRequired * 8 * 1000
        THEN /\ Len(DwellFlags) = 1
             /\ Flags[Len(Flags)] = DwellFlags[1]
             /\ Last.analysis[1].riskScore >= 35
        ELSE DwellFlags = <<>>

\* In the zone, 200 m away 30 s later, in the zone again 30 s later: a dwell of 60 s
\* and no dwell flag.
C19_Witness ==
    /\ Analysed
    /\ Len(Sorted) = 3
    /\ Near = {i \in 1..3 : Last.request.telemetry[i].timestamp # Sorted[2].timestamp}
    /\ Sorted[1].timestamp < Sorted[2].timestamp /\ Sorted[2].timestamp < Sorted[3].timestamp
    /\ Dwell = 60000
    /\ DwellFlags = <<>>

\* The arrival orders of the samples of the request, and what analyzeTelemetry
\* returns for each of them at the same server time.
Orders ==
    LET n == Len(Last.request.telemetry)
    IN  {[i \in 1..n |-> Last.request.telemetry[p[i]]] :
            p \in {q \in [1..n -> 1..n] : \A i, j \in 1..n : i # j => q[i] # q[j]}}
Reordered(telemetry) == analyzeTelemetry(telemetry, LastCampaign, Last.time)
Kinds(flags) == {<<flags[i].type, flags[i].severity>> : i \in 1..Len(flags)}
Count(flags, kind) ==
    Cardinality({i \in 1..Len(flags) : <<flags[i].type, flags[i].severity>> = kind})

\* C20: whatever the arrival order of the samples, analyzeTelemetry returns the same
\* riskScore and the same multiset of flag types and severities.
C20_OrderIndependent ==
    Called /\ Last.analysis # None =>
        \A telemetry \in Orders :
            /\ Reordered(telemetry).riskScore = Last.analysis[1].riskScore
            /\ \A kind \in Kinds(Flags) \cup Kinds(Reordered(telemetry).flags) :
                   Count(Reordered(telemetry).flags, kind) = Count(Flags, kind)

(***************************************************************************)
(* analyzeTelemetry on malformed telemetry.                                *)
(***************************************************************************)
FlagKinds ==
    {<<"IMPOSSIBLE_SPEED", "CRITICAL">>, <<"IMPOSSIBLE_SPEED", "HIGH">>,
     <<"ACCURACY_ANOMALY", "MEDIUM">>, <<"GPS_SPOOF", "CRITICAL">>, <<"GPS_SPOOF", "HIGH">>,
     <<"TIMESTAMP_DRIFT", "MEDIUM">>, <<"ALTITUDE_MISMATCH", "MEDIUM">>}
LatestTimestamp(telemetry) ==
    CHOOSE a \in {telemetry[i].timestamp : i \in 1..Len(telemetry)} :
        \A i \in 1..Len(telemetry) : telemetry[i].timestamp <= a

Offsets(cell) ==
    {[lat |-> cell.lat + dLat * cell.latError, lng |-> cell.lng + dLng * cell.lngError] :
        dLat \in {-2, 0, 2}, dLng \in {-2, 0, 2}} \ {[lat |-> cell.lat, lng |-> cell.lng]}
OnGlobe(p) == MinLat < p.lat /\ p.lat < MaxLat /\ MinLng < p.lng /\ p.lng < MaxLng
Centre(hash) == [lat |-> decodeGeohash(hash).lat, lng |-> decodeGeohash(hash).lng]

\* C22: getNeighbors(h) returns at most 8 hashes of the length of h, pairwise distinct
\* and different from h; they are exactly the cells whose centres are the offsets of
\* -2, 0 or +2 half-heights and half-widths from the centre of h that lie on the globe,
\* nothing from the other side of a pole or of the 180 degree meridian; so a cell that
\* touches a pole or that meridian has fewer than 8.
C22_Neighbors ==
    Called /\ Last.op = "getNeighbors" =>
        LET h == Last.hash
            n == Last.neighbors
            cell == decodeGeohash(h)
        IN  /\ Len(n) <= 8
            /\ \A i \in 1..Len(n) : Len(n[i]) = Len(h) /\ n[i] # h
            /\ \A i, j \in 1..Len(n) : i # j => n[i] # n[j]
            /\ {Centre(n[i]) : i \in 1..Len(n)} = {p \in Offsets(cell) : OnGlobe(p)}
            /\ \A i \in 1..Len(n) : n[i] = encodeGeohash(Centre(n[i]).lat, Centre(n[i]).lng, Len(h))
            /\ (\E p \in Offsets(cell) : ~OnGlobe(p)) => Len(n) < 8

\* A cell of 9 characters in the corner of the north pole and the 180 degree meridian:
\* five of the eight offsets are off the globe and three neighbours are returned.
C22_Witness ==
    /\ Called
    /\ Last.op = "getNeighbors"
    /\ Len(Last.hash) = 9
    /\ decodeGeohash(Last.hash).lat + decodeGeohash(Last.hash).latError = MaxLat
    /\ decodeGeohash(Last.hash).lng + decodeGeohash(Last.hash).lngError = MaxLng
    /\ Len(Last.neighbors) = 3

\* One unit of latitude (180 / 2^23 degree) is 2.386 m along a meridian.  The points
\* due north and south of (lat, lng), on the globe, at the largest whole number of
\* units within radiusMeters, at half of it, and the point itself.
Reach(radiusMeters) == (radiusMeters * 1000) \div 2386
Within(lat, lng, radiusMeters) ==
    {p \in {[lat |-> lat + d, lng |-> lng] :
               d \in {0 - Reach(radiusMeters), 0 - (Reach(radiusMeters) \div 2), 0,
                      Reach(radiusMeters) \div 2, Reach(radiusMeters)}} :
        MinLat <= p.lat /\ p.lat <= MaxLat}
InCell(p, hash) ==
    /\ Abs(p.lat - decodeGeohash(hash).lat) <= decodeGeohash(hash).latError
    /\ Abs(p.lng - decodeGeohash(hash).lng) <= decodeGeohash(hash).lngError

\* C23: every point within radiusMeters of (lat, lng) lies in one of the cells that
\* getGeohashesForRadius(lat, lng, radiusMeters) returns.
C23_CoversRadius ==
    Called /\ Last.op = "getGeohashesForRadius" =>
        \A p \in Within(Last.lat, Last.lng, Last.radiusMeters) :
            \E i \in 1..Len(Last.hashes) : InCell(p, Last.hashes[i])

(***************************************************************************)
(* The POST /api/verify handler.                                           *)
(***************************************************************************)
\* The body has the four required fields.
Complete(body) ==
    IF DOMAIN body # DOMAIN Body("", "", "", None, 0) THEN FALSE
    ELSE body.sessionId # "" /\ body.userId # "" /\ body.campaignId # "" /\ body.telemetry # None

\* The campaign of the body exists, is active and is not expired at time t.
Available(body, t) ==
    /\ getCampaignById(body.campaignId) # None
    /\ getCampaignById(body.campaignId)[1].active
    /\ getCampaignById(body.campaignId)[1].expiryDate >= t

\* C24: the handler calls verifyRedemption only for a body with sessionId, userId,
\* campaignId and telemetry whose campaign exists, is active and is not expired; every
\* other request is answered with status 400 or 404, success = false and riskScore 0,
\* and leaves usedSessionIds and recentRedemptions as they were.
C24_OnlyAvailableReachesCore ==
    LET h == handlers["h1"]
    IN  /\ Called => Complete(h.body[1]) /\ Available(h.body[1], Last.time)
        /\ h.pc = "done" /\ ~Called =>
              /\ ~Complete(h.body[1]) \/ ~Available(h.body[1], h.respondedAt[1])
              /\ h.response[1].status \in {400, 404}
              /\ ~h.response[1].json.success
              /\ h.response[1].json.riskScore = 0
              /\ usedSessionIds = EmptyMap
              /\ recentRedemptions = EmptyMap

\* The day of the week of a timestamp in a timezone (0 = Sunday).
LocalDay(timestamp, timezone) ==
    (((timestamp + TimezoneOffset(timezone)) \div MS_PER_DAY) + 4) % 7

\* C25: when the business-hours check is reached for a campaign with business hours,
\* the request passes it exactly when the hours list has an entry for the day of the
\* week of clientTimestamp in the timezone of the campaign and the HH:MM of
\* clientTimestamp in that timezone is within the openTime and closeTime of that entry.
C25_DayInCampaignTimezone ==
    Called /\ Last.priorSession = None /\ Last.priorPair = None
           /\ HoursCampaign(Last.request.campaignId).businessHours \notin {None, Some(<<>>)} =>
        LET campaign == HoursCampaign(Last.request.campaignId)
            hours == campaign.businessHours[1]
            timezone == IF campaign.timezone = None THEN "Africa/Nairobi"
                        ELSE campaign.timezone[1]
            timeStr == toLocaleTimeString(Last.request.clientTimestamp, timezone)
            today == {i \in 1..Len(hours) :
                         hours[i].dayOfWeek = LocalDay(Last.request.clientTimestamp, timezone)}
            open == \E i \in today :
                        /\ \A j \in today : i <= j
                        /\ ~StrLess(timeStr, hours[i].openTime)
                        /\ ~StrLess(hours[i].closeTime, timeStr)
        IN  IsOutsideHours(Last.result) <=> ~open

(***************************************************************************)
(* The guard over time.                                                    *)
(***************************************************************************)
\* C26: when a verifyRedemption call returns, every entry left in usedSessionIds and
\* in recentRedemptions is younger than 24 hours + 5 minutes (the clock of the model
\* never goes back).
C26_BoundedStaleness ==
    Called =>
        /\ \A k \in DOMAIN usedSessionIds : Last.time - usedSessionIds[k] < Day + FiveMinutes
        /\ \A k \in DOMAIN recentRedemptions : Last.time - recentRedemptions[k] < Day + FiveMinutes

\* A call 1 ms after a sweep: an entry of recentRedemptions that was exactly 24 h old
\* at the sweep is still there, 24 h and 1 ms old.
C26_Witness ==
    /\ Called
    /\ Last.time = lastCleanup + 1
    /\ \E k \in DOMAIN recentRedemptions : Last.time - recentRedemptions[k] = Day + 1

\* C27: in every call, each recentRedemptions entry the sweep deletes is one the rate
\* limit no longer applies to (now - timestamp < 24 h is false), and the rate-limit
\* step decides on the swept map as it would on the record of all successes of the
\* pair, from which nothing is ever removed.
C27_SweepKeepsRateLimit ==
    [][call' # call =>
        LET request == call'[1].request
            swept == cleanupExpiredSessions
            pair == <<request.userId, request.campaignId>>
        IN  /\ \A k \in (DOMAIN recentRedemptions) \ (DOMAIN swept.recentRedemptions) :
                   ~(now - recentRedemptions[k] < Day)
            /\ rateLimitCheck(swept, request)
                 <=> MapHas(history.pairs, pair) /\ now - history.pairs[pair] < Day
      ]_vars

\* A call 24 h and 1 ms after the success of its pair, not 5 minutes after the last
\* sweep: the sweep of this call has deleted the entry of the pair, and the call
\* succeeds as it would have with the entry in place.
C27_Witness ==
    /\ Called
    /\ Last.priorPair # None
    /\ Last.time - Last.priorPair[1] = Day + 1
    /\ lastCleanup = Last.time
    /\ Last.result.success

\* C28: a call is turned away by the rate limit only after a success of its own pair
\* (userId, campaignId): the success of another pair never causes it, whatever
\* characters the ids contain.
C28_PairsIndependent ==
    Called /\ IsRateLimited(Last.result) => Last.priorPair # None

(***************************************************************************)
(* The redemption token and the decision.                                  *)
(***************************************************************************)
\* C29: verifyQRPayload answers valid = true only for the payload that
\* generateSecureQRPayload issued, unaltered, at a time up to the expiresAt returned
\* with it, and then with the redemptionId, userId and campaignId it was issued for.
C29_TokenBound ==
    Called /\ Last.presented # None /\ Last.presented[1].result.valid =>
        /\ LastInput = Last.qr.payload
        /\ Last.presented[1].time <= Last.qr.expiresAt
        /\ Last.presented[1].result.data
              = Some([redemptionId |-> Some(Last.redemptionId),
                      userId |-> Some(Last.userId),
                      campaignId |-> Some(Last.campaignId)])

HasCritical(flags) == \E i \in 1..Len(flags) : flags[i].severity = "CRITICAL"

\* C30: an analysis with a CRITICAL flag has riskScore 100 and its request is rejected;
\* a successful result has a riskScore below 70 and either no fraudFlags field or a
\* non-empty list of flags, none of them CRITICAL.
C30_CriticalRejects ==
    Called =>
        /\ Last.analysis # None /\ HasCritical(Last.analysis[1].flags) =>
              /\ Last.analysis[1].riskScore = 100
              /\ ~Last.result.success
              /\ Last.result.riskScore = 100
        /\ Last.result.success =>
              /\ Last.result.riskScore < 70
              /\ Last.result.fraudFlags # None =>
                    /\ Last.result.fraudFlags[1] # <<>>
                    /\ ~HasCritical(Last.result.fraudFlags[1])

\* Six samples at one place in the zone over a minute: the CRITICAL static flag is the
\* only flag, the riskScore is 100 and the request is rejected with that flag.
C30_Witness ==
    /\ Called
    /\ Last.analysis # None
    /\ Len(Last.analysis[1].flags) = 1
    /\ Last.analysis[1].flags[1].severity = "CRITICAL"
    /\ Last.analysis[1].flags[1].type = "GPS_SPOOF"
    /\ ~Last.result.success
    /\ Last.result.fraudFlags = Some(Last.analysis[1].flags)

====
